---- MODULE Spec2Model ----
(***************************************************************************)
(* RustVault: an in-memory key-value store with a write-ahead log (WAL),   *)
(* served to clients by one handler task per connection.                   *)
(*                                                                         *)
(* The model follows src/src/store.rs, src/src/wal.rs and                  *)
(* src/src/server.rs.  Every await point of the source that lets another   *)
(* task run is a separate action; a critical section under the WAL mutex   *)
(* or under the store's RwLock is one atomic action.                       *)
(***************************************************************************)
EXTENDS Integers, Sequences, FiniteSets, TLC

(***************************************************************************)
(* Bounds of the model.                                                    *)
(***************************************************************************)
MaxOps == 3
MaxSeqOps == 3
MaxCompactOps == 2
MaxCompactions == 1

Clients == {"c1", "c2"}
\* Text (a Rust String) is the sequence of its characters.
CR == "\r"
LF == "\n"
SP == " "
TAB == "\t"

K1 == <<"k", "1">>
K2 == <<"k", "2">>
V1 == <<"v", "1">>
V2 == <<"v", "2">>

\* char::is_whitespace, for the characters of the model.
IsWhitespace(ch) == ch \in {SP, TAB, CR, LF}

Keys == {K1, K2}
Values == {V1, V2}
NoValue == <<>>

Range(seq) == {seq[i] : i \in 1..Len(seq)}

\* The sequences over S of length at most n.
RECURSIVE SeqsUpTo(_, _)
SeqsUpTo(S, n) ==
    IF n = 0 THEN {<<>>}
    ELSE SeqsUpTo(S, n - 1)
           \cup {Append(q, x) : q \in {r \in SeqsUpTo(S, n - 1) : Len(r) = n - 1}, x \in S}

(***************************************************************************)
(* protocol.rs: Command and Response.                                      *)
(***************************************************************************)
Set(k, v) == [type |-> "Set", key |-> k, value |-> v]
Get(k) == [type |-> "Get", key |-> k, value |-> NoValue]
Delete(k) == [type |-> "Delete", key |-> k, value |-> NoValue]

Mutations == {Set(k, v) : k \in Keys, v \in Values} \cup {Delete(k) : k \in Keys}
Commands == Mutations \cup {Get(k) : k \in Keys}
NoCommand == [type |-> "None", key |-> NoValue, value |-> NoValue]

Ok == [type |-> "Ok", payload |-> NoValue]
Value(v) == [type |-> "Value", payload |-> v]
NotFound == [type |-> "NotFound", payload |-> NoValue]
Error(m) == [type |-> "Error", payload |-> m]
NoResponse == [type |-> "None", payload |-> NoValue]

\* The messages of Response::Error; the diagnostic after the colon is left out.
EmptyCommandMsg == <<"Empty command">>
ParseErrorMsg == <<"Parse error: ">>
SetFailedMsg == <<"SET failed: ">>
DeleteFailedMsg == <<"DELETE failed: ">>

(***************************************************************************)
(* A request line as the handler receives it: a well-formed command line   *)
(* or a line that parse_command rejects.                                   *)
(***************************************************************************)
BadLine == [type |-> "Bad", key |-> NoValue, value |-> NoValue]

\* A line that is empty once trimmed.
EmptyLine == [type |-> "Empty", key |-> NoValue, value |-> NoValue]
RequestLines == Commands \cup {BadLine}

\* The request lines that name only keys of ks.
LinesOn(ks) == {l \in RequestLines : l = BadLine \/ l.key \in ks}

\* The key the concurrent clients contend for.
HotKeys == {K1}

(***************************************************************************)
(* protocol.rs: the nom parser of a request, on the characters of the      *)
(* input.  A parser returns whether it matched, the command, and the rest  *)
(* of the input.                                                           *)
(***************************************************************************)
Drop(q, n) == SubSeq(q, n + 1, Len(q))

\* tag(t)
Tag(q, t) == Len(q) >= Len(t) /\ SubSeq(q, 1, Len(t)) = t

EndsWith(q, t) == Len(q) >= Len(t) /\ SubSeq(q, Len(q) - Len(t) + 1, Len(q)) = t

\* The length of the longest prefix of q that reaches none of the positions
\* bad, the positions of the characters the combinator does not take.
PrefixLen(q, bad) ==
    IF bad = {} THEN Len(q)
    ELSE (CHOOSE i \in bad : \A j \in bad : i <= j) - 1

\* The positions of q whose character is in the set chars, or is not.
Positions(q, chars, member) == {i \in 1..Len(q) : (q[i] \in chars) = member}

\* space1 takes spaces and tabs: it stops at any other character.
SpaceStops(q) == Positions(q, {SP, TAB}, FALSE)

\* take_while1(|c| c != b' ' && c != b'\r' && c != b'\n')
KeyStops(q) == Positions(q, {SP, CR, LF}, TRUE)

NoMatch == [ok |-> FALSE, cmd |-> NoCommand, rest |-> <<>>]

VerbSet == <<"S", "E", "T">>
VerbGet == <<"G", "E", "T">>
VerbDelete == <<"D", "E", "L", "E", "T", "E">>

\* Mutant of key_command: take_while instead of take_while1, an empty key
\* is taken.
key_command_EmptyKey(input, verb, type) ==
    LET a == Drop(input, Len(verb))
        n1 == PrefixLen(a, SpaceStops(a))
        b == Drop(a, n1)
        n2 == PrefixLen(b, KeyStops(b))
    IN  IF Tag(input, verb) /\ n1 >= 1
        THEN [ok |-> TRUE,
              cmd |-> [type |-> type, key |-> SubSeq(b, 1, n2), value |-> NoValue],
              rest |-> Drop(b, n2)]
        ELSE NoMatch

\* get_command and delete_command: tag, space1, take_while1.
key_command(input, verb, type) ==
    LET a == Drop(input, Len(verb))
        n1 == PrefixLen(a, SpaceStops(a))
        b == Drop(a, n1)
        n2 == PrefixLen(b, KeyStops(b))
    IN  IF Tag(input, verb) /\ n1 >= 1 /\ n2 >= 1
        THEN [ok |-> TRUE,
              cmd |-> [type |-> type, key |-> SubSeq(b, 1, n2), value |-> NoValue],
              rest |-> Drop(b, n2)]
        ELSE NoMatch

get_command(input) == key_command(input, VerbGet, "Get")

delete_command(input) == key_command(input, VerbDelete, "Delete")

\* set_command: tag, space1, take_while1, space1, take_until("\r\n").
set_command(input) ==
    LET k == key_command(input, VerbSet, "Set")
        n3 == PrefixLen(k.rest, SpaceStops(k.rest))
        d == Drop(k.rest, n3)
        ends == {i \in 1..(Len(d) - 1) : d[i] = CR /\ d[i + 1] = LF}
        p == CHOOSE i \in ends : \A j \in ends : i <= j
    IN  IF k.ok /\ n3 >= 1 /\ ends # {}
        THEN [ok |-> TRUE,
              cmd |-> Set(k.cmd.key, SubSeq(d, 1, p - 1)),
              rest |-> Drop(d, p - 1)]
        ELSE NoMatch

\* command_parser: terminated(alt((set, get, delete)), alt((CRLF, LF))).
command_parser(input) ==
    LET r == IF set_command(input).ok THEN set_command(input)
             ELSE IF get_command(input).ok THEN get_command(input)
             ELSE delete_command(input)
    IN  IF r.ok /\ (Tag(r.rest, <<CR, LF>>) \/ Tag(r.rest, <<LF>>)) THEN r ELSE NoMatch

\* parse_command: the command, or BadLine for Err(RustVaultError::Protocol).
parse_command(input) ==
    IF command_parser(input).ok THEN command_parser(input).cmd ELSE BadLine

\* Mutant of Trim: the line is taken as it is.
Trim_Nothing(q) == q

\* str::trim
Trim(q) ==
    LET ink == {i \in 1..Len(q) : ~IsWhitespace(q[i])}
        lo == CHOOSE i \in ink : \A j \in ink : i <= j
        hi == CHOOSE i \in ink : \A j \in ink : j <= i
    IN  IF ink = {} THEN <<>> ELSE SubSeq(q, lo, hi)

\* process_command up to the call of execute_command: the line is trimmed,
\* an empty one is answered at once, CRLF is added and the result parsed.
ParseLine(raw) ==
    LET t == Trim(raw)
        full == IF EndsWith(t, <<CR, LF>>) \/ EndsWith(t, <<LF>>) THEN t
                ELSE t \o <<CR, LF>>
    IN  IF t = <<>> THEN EmptyLine ELSE parse_command(full)

\* client.rs, send_command: the bytes of a request.
CommandBytes(c) ==
    CASE c.type = "Set" -> VerbSet \o <<SP>> \o c.key \o <<SP>> \o c.value \o <<CR, LF>>
      [] c.type = "Get" -> VerbGet \o <<SP>> \o c.key \o <<CR, LF>>
      [] c.type = "Delete" -> VerbDelete \o <<SP>> \o c.key \o <<CR, LF>>

(***************************************************************************)
(* wal.rs: one WAL entry is one line of JSON text.  A line is modelled as  *)
(* the sequence of its tokens and of the characters of its strings; the    *)
(* timestamp is the token "ts".                                            *)
(***************************************************************************)
QUOTE == "\""
BACKSLASH == "\\"

\* serde_json writes a string between quotes and escapes the quote, the
\* backslash and the control characters.
RECURSIVE JsonEscape(_)
JsonEscape(q) ==
    IF q = <<>> THEN <<>>
    ELSE (CASE Head(q) = CR -> <<BACKSLASH, "r">>
            [] Head(q) = LF -> <<BACKSLASH, "n">>
            [] Head(q) = TAB -> <<BACKSLASH, "t">>
            [] Head(q) = QUOTE -> <<BACKSLASH, QUOTE>>
            [] Head(q) = BACKSLASH -> <<BACKSLASH, BACKSLASH>>
            [] OTHER -> <<Head(q)>>) \o JsonEscape(Tail(q))

JsonString(q) == <<QUOTE>> \o JsonEscape(q) \o <<QUOTE>>

\* serde_json::to_string(&WalEntry)
ToJson(cmd) ==
    IF cmd.type = "Set"
    THEN <<"{", "ts", "Set">> \o JsonString(cmd.key) \o JsonString(cmd.value) \o <<"}">>
    ELSE <<"{", "ts", cmd.type>> \o JsonString(cmd.key) \o <<"}">>

ParseError == [type |-> "ParseError", key |-> NoValue, value |-> NoValue]

\* serde_json::from_str::<WalEntry>: succeeds only on a complete entry.
FromJson(line) ==
    IF \E cmd \in Commands : ToJson(cmd) = line
    THEN CHOOSE cmd \in Commands : ToJson(cmd) = line
    ELSE ParseError

\* line.trim().is_empty()
IsBlank(line) == \A i \in 1..Len(line) : IsWhitespace(line[i])

(***************************************************************************)
(* A file: the newline-terminated lines, and the bytes after the last      *)
(* newline (tail), which are empty when the file ends in a newline.        *)
(***************************************************************************)
EmptyFile == [lines |-> <<>>, tail |-> <<>>]

\* BufRead::lines(): the terminated lines, then the unterminated rest if any.
FileLines(f) == IF f.tail = <<>> THEN f.lines ELSE Append(f.lines, f.tail)

\* writeln!(writer, "{}", json) and flush on a file opened for append.
AppendLine(f, line) == [lines |-> Append(f.lines, f.tail \o line), tail |-> <<>>]

(***************************************************************************)
(* store.rs: the HashMap behind the RwLock, as a function whose domain is  *)
(* the set of present keys.                                                *)
(***************************************************************************)
EmptyMap == [k \in {} |-> NoValue]
\* Mutant of MapInsert: a present key keeps its value.
MapInsert_NoOverwrite(d, k, v) ==
    [x \in (DOMAIN d) \cup {k} |-> IF x \in DOMAIN d THEN d[x] ELSE v]

MapInsert(d, k, v) == [x \in (DOMAIN d) \cup {k} |-> IF x = k THEN v ELSE d[x]]
\* Mutant of MapRemove: the key stays.
MapRemove_Keep(d, k) == d

MapRemove(d, k) == [x \in (DOMAIN d) \ {k} |-> d[x]]

\* MemoryStore::exists: data.contains_key(key).
Exists(d, k) == k \in DOMAIN d

\* The closure restore_from_wal hands to replay (also apply_command_direct).
ApplyDirect(d, cmd) ==
    CASE cmd.type = "Set" -> MapInsert(d, cmd.key, cmd.value)
      [] cmd.type = "Delete" -> MapRemove(d, cmd.key)
      [] OTHER -> d

\* WriteAheadLog::replay with the closure of restore_from_wal: the lines in
\* file order; a blank line is skipped; a line that does not parse aborts.
RECURSIVE ReplayLines(_, _)
ReplayLines(ls, d) ==
    IF ls = <<>> THEN [ok |-> TRUE, data |-> d]
    ELSE IF IsBlank(Head(ls)) THEN ReplayLines(Tail(ls), d)
    ELSE IF FromJson(Head(ls)) = ParseError THEN [ok |-> FALSE, data |-> d]
    ELSE ReplayLines(Tail(ls), ApplyDirect(d, FromJson(Head(ls))))

\* WriteAheadLog::replay with a closure that records its argument: the
\* commands apply_fn was called with, in the order of the calls.
RECURSIVE ReplayCalls(_, _)
ReplayCalls(ls, i) ==
    IF i > Len(ls) THEN <<>>
    ELSE IF IsBlank(ls[i]) THEN ReplayCalls(ls, i + 1)
    ELSE IF FromJson(ls[i]) = ParseError THEN <<>>
    ELSE <<FromJson(ls[i])>> \o ReplayCalls(ls, i + 1)

\* MemoryStore::restore_from_wal on a fresh store.
RestoreFromWal(f) == ReplayLines(FileLines(f), EmptyMap)

(***************************************************************************)
(* State.                                                                  *)
(***************************************************************************)
VARIABLES
    data,       \* MemoryStore.data
    hasWal,     \* MemoryStore.wal is Some
    srv,        \* RustVaultServer::new: not called, returned Ok, returned Err
    pcx,        \* where the task that called compact is in it
    chist,      \* history of the last compaction: the replay of the WAL when
                \* it began (before) and whether a set, delete or clear was in
                \* flight since (clean: "none", "running", "done")
    files,      \* inode -> file contents
    path,       \* inode the WAL path names
    writer,     \* inode the WriteAheadLog.writer appends to
    pc,         \* per handler: where it is in handle_client
    cmd,        \* per handler: the command being executed
    resp,       \* per handler: the response being produced
    budget,     \* request lines the clients may still send
    opn,        \* per handler: the number of request lines it has read
    mark,       \* history, per handler: lengths of ackOrder when the line
                \* was read (acks) and of memOrder when get read data (mems)
    walOrder,   \* history: mutations in the order of their WAL appends
    memOrder,   \* history: mutations in the order they changed data
    ackOrder,   \* history: responses in the order they were written
    inbox,      \* per connection: what the client sent and read_line has not
                \* returned yet, in order
    rx,         \* per receiver of the shutdown channel: what recv() finds
    run,        \* where RustVaultServer::run is
    shut,       \* history: the results of the calls of shutdown()
    task,       \* the last call a task made on the store directly, and its
                \* result
    call,       \* per client of the library (client.rs): the call in progress,
                \* the response lines read, and the calls made with their results
    probe,      \* the argument and the result of a parser called on its own
    lock        \* the WAL writer mutex and the store's RwLock: their holders,
                \* and where each task that takes them is

\* The state of the connections, of the shutdown channel and of the tasks.
\* The state of the library clients, of a parser called on its own, and of
\* the locks.
aux == <<call, probe, lock>>

net == <<inbox, rx, run, shut, task, aux>>

\* The same without probe.
net_but_probe == <<inbox, rx, run, shut, task, call, lock>>

vars == <<data, hasWal, srv, pcx, chist, files, path, writer, pc, cmd, resp, budget, opn,
          mark, walOrder, memOrder, ackOrder, inbox, rx, run, shut, task, call, probe, lock>>

Inodes == 1..(1 + MaxCompactions)

\* The request a handler is serving, as it is recorded in the histories.
Op(c) == [c |-> c, n |-> opn[c], cmd |-> cmd[c]]

FreshFiles == [i \in Inodes |-> EmptyFile]

\* The accept loop's name as a receiver of the shutdown channel.
Acceptor == "acceptor"
Receivers == Clients \cup {Acceptor}

\* What a task that calls the store directly got back: found for get and
\* exists, count for len, items for get and get_all.
NoTask == [op |-> "none", key |-> NoValue, found |-> FALSE, count |-> 0, items |-> <<>>]

\* No library call made, no parser called, no lock held.
NoCall == [cmd |-> NoCommand, read |-> 0, log |-> <<>>]
NoProbe == [in |-> NoCommand, bytes |-> <<>>, out |-> NoCommand]
\* The tasks that call the store and the WAL concurrently.
LockTasks == {"t1", "t2", "t3"}

\* A task outside any call: plan is the locks it still has to take, done
\* the locks it has taken and released, pos whether it waits for the first
\* lock of plan ("want") or holds it ("hold").
\* arg is the command of a task that is in write_entry.
NoCallOfTask == [op |-> "none", plan |-> <<>>, done |-> <<>>, pos |-> "idle",
                 arg |-> NoCommand]

\* writer is the holder of WriteAheadLog.writer (a Mutex); wr and readers
\* are the holders of MemoryStore.data (a RwLock) and queue the tasks that
\* wait for it, in the order of their requests.
\* buf is what the mutex guards: the bytes the BufWriter holds and has not
\* written to its file.
NoLocks == [writer |-> "free", wr |-> "free", readers |-> {}, queue |-> <<>>,
            buf |-> <<>>, at |-> [t \in LockTasks |-> NoCallOfTask]]

NoCompaction == [before |-> [ok |-> TRUE, data |-> EmptyMap], clean |-> "none"]

InitStore ==
    /\ pcx = "idle"
    /\ chist = NoCompaction
    /\ path = 1
    /\ writer = 1
    /\ cmd = [c \in Clients |-> NoCommand]
    /\ resp = [c \in Clients |-> NoResponse]
    /\ opn = [c \in Clients |-> 0]
    /\ mark = [c \in Clients |-> [acks |-> 0, mems |-> 0]]
    /\ walOrder = <<>>
    /\ memOrder = <<>>
    /\ ackOrder = <<>>
    /\ shut = <<>>
    /\ task = NoTask
    /\ call = [c \in Clients |-> NoCall]
    /\ probe = NoProbe
    /\ lock = NoLocks

\* The connections of Clients are accepted and their handlers wait in select;
\* the accept loop runs.
InitConnected ==
    /\ pc = [c \in Clients |-> "idle"]
    /\ inbox = [c \in Clients |-> <<>>]
    /\ rx = [r \in Receivers |-> "empty"]
    /\ run = "select"

\* run has not been called: nobody is connected and the shutdown channel
\* has no receiver.
InitUnconnected ==
    /\ pc = [c \in Clients |-> "closed"]
    /\ inbox = [c \in Clients |-> <<>>]
    /\ rx = [r \in Receivers |-> "none"]
    /\ run = "new"

\* A server on a fresh WAL file, as RustVaultServer::new leaves it.
Init ==
    /\ InitStore
    /\ InitConnected
    /\ files = FreshFiles
    /\ data = EmptyMap
    /\ hasWal = TRUE
    /\ srv = "up"
    /\ budget = MaxOps

(***************************************************************************)
(* server.rs: handle_client, process_command, execute_command.             *)
(***************************************************************************)

\* Mutant of HandleLine: a Get goes through the WAL like a mutation.
HandleLine_LogsGet(c, lines) ==
    /\ srv = "up"
    /\ pc[c] = "idle"
    /\ budget > 0
    /\ \E line \in lines :
         /\ cmd' = [cmd EXCEPT ![c] =
                       IF line.type \in {"Bad", "Empty"} THEN NoCommand ELSE line]
         /\ resp' = [resp EXCEPT ![c] =
                        CASE line.type = "Empty" -> Error(EmptyCommandMsg)
                          [] line.type = "Bad" -> Error(ParseErrorMsg)
                          [] OTHER -> NoResponse]
         /\ pc' = [pc EXCEPT ![c] =
                      CASE line.type \in {"Bad", "Empty"} -> "respond"
                        [] line.type = "Get" -> "wal"
                        [] OTHER -> IF hasWal THEN "wal" ELSE "mem"]
         /\ chist' = IF line.type \in {"Set", "Delete"}
                      THEN [chist EXCEPT !.clean = "none"]
                      ELSE chist
    /\ inbox' = [inbox EXCEPT ![c] = IF @ = <<>> THEN @ ELSE Tail(@)]
    /\ budget' = budget - 1
    /\ opn' = [opn EXCEPT ![c] = @ + 1]
    /\ mark' = [mark EXCEPT ![c] = [acks |-> Len(ackOrder), mems |-> 0]]
    /\ UNCHANGED <<aux, rx, run, shut, task, data, hasWal, srv, pcx, files, path, writer, walOrder, memOrder, ackOrder>>

\* read_line returned a line: process_command parses it; execute_command
\* dispatches on the command and the store operation starts.
HandleLine(c, lines) ==
    /\ srv = "up"
    /\ pc[c] = "idle"
    /\ budget > 0
    /\ \E line \in lines :
         /\ cmd' = [cmd EXCEPT ![c] =
                       IF line.type \in {"Bad", "Empty"} THEN NoCommand ELSE line]
         /\ resp' = [resp EXCEPT ![c] =
                        CASE line.type = "Empty" -> Error(EmptyCommandMsg)
                          [] line.type = "Bad" -> Error(ParseErrorMsg)
                          [] OTHER -> NoResponse]
         /\ pc' = [pc EXCEPT ![c] =
                      CASE line.type \in {"Bad", "Empty"} -> "respond"
                        [] line.type = "Get" -> "get"
                        [] OTHER -> IF hasWal THEN "wal" ELSE "mem"]
         /\ chist' = IF line.type \in {"Set", "Delete"}
                      THEN [chist EXCEPT !.clean = "none"]
                      ELSE chist
    /\ inbox' = [inbox EXCEPT ![c] = IF @ = <<>> THEN @ ELSE Tail(@)]
    /\ budget' = budget - 1
    /\ opn' = [opn EXCEPT ![c] = @ + 1]
    /\ mark' = [mark EXCEPT ![c] = [acks |-> Len(ackOrder), mems |-> 0]]
    /\ UNCHANGED <<aux, rx, run, shut, task, data, hasWal, srv, pcx, files, path, writer, walOrder, memOrder, ackOrder>>

\* Mutant of LogCommand: the mutation goes on to memory without its entry.
LogCommand_NoAppend(c) ==
    /\ pc[c] = "wal"
    /\ pc' = [pc EXCEPT ![c] = "mem"]
    /\ UNCHANGED <<net, data, hasWal, srv, pcx, chist, files, path, writer, cmd, resp, budget, opn, mark,
                   walOrder, memOrder, ackOrder>>

\* Mutant of LogCommand: the delete of an absent key is not logged.
LogCommand_SkipsAbsentDelete(c) ==
    /\ pc[c] = "wal"
    /\ files' = IF cmd[c].type = "Delete" /\ ~Exists(data, cmd[c].key) THEN files
                ELSE [files EXCEPT ![writer] = AppendLine(@, ToJson(cmd[c]))]
    /\ walOrder' = Append(walOrder, Op(c))
    /\ pc' = [pc EXCEPT ![c] = "mem"]
    /\ UNCHANGED <<net, data, hasWal, srv, pcx, chist, path, writer, cmd, resp, budget, opn, mark, memOrder, ackOrder>>

\* MemoryStore::set / delete, first half: wal.log_command(command).await
\* succeeds: write_entry locks the writer, writes the line and flushes.
LogCommand(c) ==
    /\ pc[c] = "wal"
    /\ files' = [files EXCEPT ![writer] = AppendLine(@, ToJson(cmd[c]))]
    /\ walOrder' = Append(walOrder, Op(c))
    /\ pc' = [pc EXCEPT ![c] = "mem"]
    /\ UNCHANGED <<net, data, hasWal, srv, pcx, chist, path, writer, cmd, resp, budget, opn, mark, memOrder, ackOrder>>

\* Mutant of LogCommandFail: the error of the append is dropped.
LogCommandFail_Ignored(c) ==
    /\ pc[c] = "wal"
    /\ pc' = [pc EXCEPT ![c] = "mem"]
    /\ UNCHANGED <<net, data, hasWal, srv, pcx, chist, files, path, writer, cmd, resp, budget, opn, mark,
                   walOrder, memOrder, ackOrder>>

\* wal.log_command(command).await? fails: set / delete return the error and
\* execute_command turns it into Response::Error.
LogCommandFail(c) ==
    /\ pc[c] = "wal"
    /\ resp' = [resp EXCEPT ![c] =
                   Error(IF cmd[c].type = "Set" THEN SetFailedMsg ELSE DeleteFailedMsg)]
    /\ pc' = [pc EXCEPT ![c] = "respond"]
    /\ UNCHANGED <<net, data, hasWal, srv, pcx, chist, files, path, writer, cmd, budget, opn, mark,
                   walOrder, memOrder, ackOrder>>

\* Mutant of ApplyMutation: a delete reports success whatever it found.
ApplyMutation_DeleteAlwaysOk(c) ==
    /\ pc[c] = "mem"
    /\ data' = IF cmd[c].type = "Set"
               THEN MapInsert(data, cmd[c].key, cmd[c].value)
               ELSE MapRemove(data, cmd[c].key)
    /\ resp' = [resp EXCEPT ![c] = Ok]
    /\ memOrder' = Append(memOrder, Op(c))
    /\ pc' = [pc EXCEPT ![c] = "respond"]
    /\ UNCHANGED <<net, hasWal, srv, pcx, chist, files, path, writer, cmd, budget, opn, mark, walOrder, ackOrder>>

\* MemoryStore::set / delete, second half: self.data.write().await, then
\* insert or remove; execute_command maps the result to a Response.
ApplyMutation(c) ==
    /\ pc[c] = "mem"
    /\ data' = IF cmd[c].type = "Set"
               THEN MapInsert(data, cmd[c].key, cmd[c].value)
               ELSE MapRemove(data, cmd[c].key)
    /\ resp' = [resp EXCEPT ![c] =
                   IF cmd[c].type = "Set" \/ cmd[c].key \in DOMAIN data
                   THEN Ok ELSE NotFound]
    /\ memOrder' = Append(memOrder, Op(c))
    /\ pc' = [pc EXCEPT ![c] = "respond"]
    /\ UNCHANGED <<net, hasWal, srv, pcx, chist, files, path, writer, cmd, budget, opn, mark, walOrder, ackOrder>>

\* MemoryStore::get under the read lock; execute_command maps the result.
ExecGet(c) ==
    /\ pc[c] = "get"
    /\ resp' = [resp EXCEPT ![c] =
                   IF cmd[c].key \in DOMAIN data THEN Value(data[cmd[c].key])
                   ELSE NotFound]
    /\ mark' = [mark EXCEPT ![c].mems = Len(memOrder)]
    /\ pc' = [pc EXCEPT ![c] = "respond"]
    /\ UNCHANGED <<net, data, hasWal, srv, pcx, chist, files, path, writer, cmd, budget, opn,
                   walOrder, memOrder, ackOrder>>

\* writer.write_all(&response_bytes) and writer.flush() succeed: the client
\* has its response and the handler loops.
WriteResponse(c) ==
    /\ pc[c] = "respond"
    /\ ackOrder' = Append(ackOrder, [c |-> c, n |-> opn[c], cmd |-> cmd[c],
                                     resp |-> resp[c]])
    /\ pc' = [pc EXCEPT ![c] = "idle"]
    /\ UNCHANGED <<net, data, hasWal, srv, pcx, chist, files, path, writer, cmd, resp, budget, opn, mark,
                   walOrder, memOrder>>

\* execute_command and the write of the response, step by step.
Execute(c) ==
    \/ LogCommand(c)
    \/ LogCommandFail(c)
    \/ ApplyMutation(c)
    \/ ExecGet(c)
    \/ WriteResponse(c)

Handler(c, lines) ==
    \/ HandleLine(c, lines)
    \/ Execute(c)

\* Concurrent connections whose requests name the same key.
Next == \E c \in Clients : Handler(c, LinesOn(HotKeys))

Spec == Init /\ [][Next]_vars

(***************************************************************************)
(* Concurrent connections, each on a key of its own (test_concurrent_      *)
(* clients, test_concurrent_access), on a store with or without WAL.       *)
(***************************************************************************)
MaxDisjointOps == 4

\* The key each client uses and the value it sets it to.
OwnKey == [c \in Clients |-> IF c = "c1" THEN K1 ELSE K2]
OwnValue == [c \in Clients |-> IF c = "c1" THEN V1 ELSE V2]

\* The SET, GET and DELETE lines of client c.
OwnLines(c) == {Set(OwnKey[c], OwnValue[c]), Get(OwnKey[c]), Delete(OwnKey[c])}

InitDisjoint ==
    /\ InitStore
    /\ InitConnected
    /\ files = FreshFiles
    /\ data = EmptyMap
    /\ hasWal \in BOOLEAN
    /\ srv = "up"
    /\ budget = MaxDisjointOps

\* Mutant of NextDisjoint: the clients use the same key.
NextDisjoint_SharedKey == \E c \in Clients : Handler(c, OwnLines("c1") \cup {Set(K1, V2)})

NextDisjoint == \E c \in Clients : Handler(c, OwnLines(c))

SpecDisjoint == InitDisjoint /\ [][NextDisjoint]_vars

(***************************************************************************)
(* One connection at a time: the operations of the store do not overlap.   *)
(* The store is MemoryStore::new() or MemoryStore::with_wal(wal).          *)
(***************************************************************************)
InitSeq ==
    /\ InitStore
    /\ InitConnected
    /\ files = FreshFiles
    /\ data = EmptyMap
    /\ hasWal \in BOOLEAN
    /\ srv = "up"
    /\ budget = MaxSeqOps

NextSeq == Handler("c1", RequestLines)

SpecSeq == InitSeq /\ [][NextSeq]_vars

(***************************************************************************)
(* wal.rs: compact, called by a task that holds the store and the WAL.     *)
(* compact takes the writer mutex only for its last statement, so appends  *)
(* of the handlers interleave with its steps.                              *)
(***************************************************************************)

\* The orders in which get_all may list the mappings of d (HashMap::iter).
Listings(d) ==
    {q \in SeqsUpTo(DOMAIN d, Cardinality(DOMAIN d)) :
        Len(q) = Cardinality(DOMAIN d) /\ Range(q) = DOMAIN d}

\* A set or delete that has been read and not answered yet.
InFlight(c) == pc[c] # "idle" /\ cmd[c] \in Mutations

\* Mutant of CompactBegin: the last mapping of the snapshot is not written.
CompactBegin_DropsLast ==
    /\ srv = "up" /\ hasWal
    /\ pcx = "idle"
    /\ path + 1 \in Inodes
    /\ \E q \in Listings(data) :
         files' = [files EXCEPT ![path + 1] =
                     [lines |-> [i \in 1..(Len(q) - 1) |-> ToJson(Set(q[i], data[q[i]]))],
                      tail |-> <<>>]]
    /\ pcx' = "written"
    /\ chist' = [before |-> RestoreFromWal(files[path]),
                 clean |-> IF \E c \in Clients : InFlight(c) THEN "none" ELSE "running"]
    /\ UNCHANGED <<net, data, hasWal, srv, path, writer, pc, cmd, resp, budget, opn, mark,
                   walOrder, memOrder, ackOrder>>

\* Mutant of CompactBegin: the snapshot is written after the entries the
\* WAL already holds.
CompactBegin_KeepsOldEntries ==
    /\ srv = "up" /\ hasWal
    /\ pcx = "idle"
    /\ path + 1 \in Inodes
    /\ \E q \in Listings(data) :
         files' = [files EXCEPT ![path + 1] =
                     [lines |-> FileLines(files[path])
                                  \o [i \in 1..Len(q) |-> ToJson(Set(q[i], data[q[i]]))],
                      tail |-> <<>>]]
    /\ pcx' = "written"
    /\ chist' = [before |-> RestoreFromWal(files[path]),
                 clean |-> IF \E c \in Clients : InFlight(c) THEN "none" ELSE "running"]
    /\ UNCHANGED <<net, data, hasWal, srv, path, writer, pc, cmd, resp, budget, opn, mark,
                   walOrder, memOrder, ackOrder>>

\* compact, lines 103-121: the temporary file is created, the snapshot
\* get_all_entries() is taken and written to it as Set entries, and flushed.
CompactBegin ==
    /\ srv = "up" /\ hasWal
    /\ pcx = "idle"
    /\ path + 1 \in Inodes
    /\ \E q \in Listings(data) :
         files' = [files EXCEPT ![path + 1] =
                     [lines |-> [i \in 1..Len(q) |-> ToJson(Set(q[i], data[q[i]]))],
                      tail |-> <<>>]]
    /\ pcx' = "written"
    /\ chist' = [before |-> RestoreFromWal(files[path]),
                 clean |-> IF \E c \in Clients : InFlight(c) THEN "none" ELSE "running"]
    /\ UNCHANGED <<net, data, hasWal, srv, path, writer, pc, cmd, resp, budget, opn, mark,
                   walOrder, memOrder, ackOrder>>

\* compact, line 124: std::fs::rename(&temp_path, &self.path).  The writer
\* still has the old file open.
CompactRename ==
    /\ pcx = "written"
    /\ path' = path + 1
    /\ pcx' = "renamed"
    /\ UNCHANGED <<net, data, hasWal, srv, chist, files, writer, pc, cmd, resp, budget, opn,
                   mark, walOrder, memOrder, ackOrder>>

\* compact, lines 127-133: the path is opened for append and, under the
\* writer mutex, the new writer replaces the old one.
CompactReopen ==
    /\ pcx = "renamed"
    /\ writer' = path
    /\ pcx' = "idle"
    /\ chist' = [chist EXCEPT !.clean = IF @ = "running" THEN "done" ELSE "none"]
    /\ UNCHANGED <<net, data, hasWal, srv, files, path, pc, cmd, resp, budget, opn,
                   mark, walOrder, memOrder, ackOrder>>

Compact == CompactBegin \/ CompactRename \/ CompactReopen

\* Mutant of Clear: the WAL file is truncated as well.
Clear_TruncatesWal ==
    /\ srv = "up"
    /\ pcx = "idle"
    /\ data' = EmptyMap
    /\ chist' = [chist EXCEPT !.clean = "none"]
    /\ task' = [NoTask EXCEPT !.op = "clear"]
    /\ files' = [files EXCEPT ![path] = EmptyFile]
    /\ UNCHANGED <<aux, inbox, rx, run, shut, hasWal, srv, pcx, path, writer, pc, cmd, resp, budget, opn,
                   mark, walOrder, memOrder, ackOrder>>

\* MemoryStore::clear, called by the same task between two compactions.
Clear ==
    /\ srv = "up"
    /\ pcx = "idle"
    /\ data' = EmptyMap
    /\ chist' = [chist EXCEPT !.clean = "none"]
    /\ task' = [NoTask EXCEPT !.op = "clear"]
    /\ UNCHANGED <<aux, inbox, rx, run, shut, hasWal, srv, pcx, files, path, writer, pc, cmd, resp, budget, opn,
                   mark, walOrder, memOrder, ackOrder>>

InitCompact ==
    /\ InitStore
    /\ InitConnected
    /\ files = FreshFiles
    /\ data = EmptyMap
    /\ hasWal = TRUE
    /\ srv = "up"
    /\ budget = MaxCompactOps

\* One connection and a concurrent compaction.
NextCompact == Handler("c1", RequestLines) \/ Compact

SpecCompact == InitCompact /\ [][NextCompact]_vars

\* One connection and a task that calls clear and compact.
NextMaint == Handler("c1", RequestLines) \/ Compact \/ Clear

SpecMaint == InitCompact /\ [][NextMaint]_vars

(***************************************************************************)
(* Server start on a WAL file found on disk.                               *)
(***************************************************************************)
MaxWalLines == 2

\* Proper non-empty prefixes of an entry: what a crash in mid-append leaves.
Truncations(line) == {SubSeq(line, 1, n) : n \in 1..(Len(line) - 1)}

EntryLines == {ToJson(c) : c \in Commands}
BlankLines == {<<>>, <<" ">>}
MalformedLines == {<<"{", "ts", "}">>}
WalLines == EntryLines \cup BlankLines \cup MalformedLines
WalTails == {<<>>} \cup UNION {Truncations(l) : l \in EntryLines}

WalFiles == {[lines |-> ls, tail |-> t] : ls \in SeqsUpTo(WalLines, MaxWalLines), t \in WalTails}

MaxStartOps == 1

InitReplay ==
    /\ InitStore
    /\ InitUnconnected
    /\ \E f \in WalFiles : files = [i \in Inodes |-> IF i = 1 THEN f ELSE EmptyFile]
    /\ data = EmptyMap
    /\ hasWal = TRUE
    /\ srv = "down"
    /\ budget = MaxStartOps

\* replay calls the closure of restore_from_wal for the first line that is
\* not blank when that line parses.
ClosureCalled(f) ==
    LET ls == SelectSeq(FileLines(f), LAMBDA l : ~IsBlank(l))
    IN  ls # <<>> /\ FromJson(Head(ls)) # ParseError

\* Mutant of ServerNew: the error of the replay is dropped.
ServerNew_IgnoresError ==
    /\ srv = "down"
    /\ data' = RestoreFromWal(files[path]).data
    /\ srv' = "up"
    /\ UNCHANGED <<net, hasWal, pcx, chist, files, path, writer, pc, cmd, resp, budget, opn, mark,
                   walOrder, memOrder, ackOrder>>

\* RustVaultServer::new: WriteAheadLog::new opens the file for append,
\* MemoryStore::with_wal starts empty, restore_from_wal replays the file; an
\* error of the replay is returned and no server exists.  The closure the
\* replay calls for an entry enters the runtime again with
\* Handle::current().block_on, which panics when the caller is itself run
\* by that runtime: a start on a WAL with an entry may end in that panic.
ServerNew ==
    /\ srv = "down"
    /\ \/ /\ data' = RestoreFromWal(files[path]).data
          /\ srv' = IF RestoreFromWal(files[path]).ok THEN "up" ELSE "failed"
       \/ /\ ClosureCalled(files[path])
          /\ data' = EmptyMap
          /\ srv' = "panicked"
    /\ UNCHANGED <<net, hasWal, pcx, chist, files, path, writer, pc, cmd, resp, budget, opn, mark,
                   walOrder, memOrder, ackOrder>>

\* A task calls wal.replay with a closure that pushes each command to a
\* vector (test_wal_write_and_replay); found is whether replay returned Ok.
TaskReplay ==
    /\ task = NoTask
    /\ task' = [NoTask EXCEPT
                   !.op = "replay",
                   !.items = ReplayCalls(FileLines(files[path]), 1),
                   !.found = RestoreFromWal(files[path]).ok]
    /\ UNCHANGED <<aux, inbox, rx, run, shut, data, hasWal, srv, pcx, chist, files, path, writer,
                   pc, cmd, resp, budget, opn, mark, walOrder, memOrder, ackOrder>>

\* A WAL file found on disk that ends in a newline or in the first byte of
\* an entry.
InitRestore ==
    /\ InitStore
    /\ InitUnconnected
    /\ \E ls \in SeqsUpTo(WalLines, MaxWalLines), t \in {x \in WalTails : Len(x) <= 1} :
         files = [i \in Inodes |-> IF i = 1 THEN [lines |-> ls, tail |-> t] ELSE EmptyFile]
    /\ data = EmptyMap
    /\ hasWal = TRUE
    /\ srv = "down"
    /\ budget = MaxStartOps

\* The start of the server on a WAL found on disk, and a replay of that WAL
\* by a task.
NextRestore == ServerNew \/ TaskReplay

SpecRestore == InitRestore /\ [][NextRestore]_vars

(***************************************************************************)
(* server.rs: the connections, the accept loop of run and shutdown.  The   *)
(* shutdown channel is broadcast::channel(1): a receiver is "none" when it *)
(* does not exist, "empty" when recv() would wait, "signal" when recv()    *)
(* returns the value, "lagged" when a second value overwrote an unread one *)
(* and recv() returns Err(Lagged).                                         *)
(***************************************************************************)
MaxServeOps == 2
MaxShutdowns == 2

\* read_line returns Ok(0) at the end of the stream: the stream a client
\* closed ends with this mark.
Eof == <<"eof">>

\* The request lines a connection holds that read_line has not returned.
Unread(c) == Len(SelectSeq(inbox[c], LAMBDA l : l # Eof))

RECURSIVE SumUnread(_)
SumUnread(cs) ==
    IF cs = {} THEN 0
    ELSE LET c == CHOOSE x \in cs : TRUE IN Unread(c) + SumUnread(cs \ {c})

\* The connection of c exists and its handler has not returned.
Connected(c) == pc[c] \notin {"closed", "eof", "stopped", "error"}

\* TcpStream::connect: the connection waits in the backlog of the listener.
ClientConnect(c) ==
    /\ pc[c] = "closed"
    /\ run \in {"select", "spawning"}
    /\ pc' = [pc EXCEPT ![c] = "pending"]
    /\ UNCHANGED <<aux, data, hasWal, srv, pcx, chist, files, path, writer, cmd, resp, budget, opn,
                   mark, walOrder, memOrder, ackOrder, inbox, rx, run, shut, task>>

\* The client writes one request line; window is the number of requests it
\* may have outstanding (1 for client.rs, which reads the response first;
\* more for a client that sends ahead of the responses).
ClientSend(c, raws, window) ==
    /\ Connected(c)
    /\ Eof \notin Range(inbox[c])
    /\ Unread(c) + (IF pc[c] \in {"wal", "mem", "get", "respond"} THEN 1 ELSE 0) < window
    /\ SumUnread(Clients) < budget
    /\ \E raw \in raws : inbox' = [inbox EXCEPT ![c] = Append(@, raw)]
    /\ UNCHANGED <<aux, data, hasWal, srv, pcx, chist, files, path, writer, pc, cmd, resp, budget,
                   opn, mark, walOrder, memOrder, ackOrder, rx, run, shut, task>>

\* Client::close: the write side is shut down.
ClientClose(c) ==
    /\ Connected(c)
    /\ Eof \notin Range(inbox[c])
    /\ inbox' = [inbox EXCEPT ![c] = Append(@, Eof)]
    /\ UNCHANGED <<aux, data, hasWal, srv, pcx, chist, files, path, writer, pc, cmd, resp, budget,
                   opn, mark, walOrder, memOrder, ackOrder, rx, run, shut, task>>

\* Mutant of NextLine: the handler takes the newest line of the stream.
NextLine_Newest(q) == q[Len(q)]

\* buf_reader.read_line(&mut line): the oldest line of the stream.
NextLine(q) == Head(q)

\* handle_client, the read branch of select with Ok(n), n > 0: the line is
\* processed.
ReadLine(c) ==
    /\ inbox[c] # <<>>
    /\ NextLine(inbox[c]) # Eof
    /\ HandleLine(c, {ParseLine(NextLine(inbox[c]))})

\* handle_client, the read branch with Ok(0): the handler returns and its
\* receiver is dropped.
HandlerEof(c) ==
    /\ pc[c] = "idle"
    /\ inbox[c] # <<>>
    /\ NextLine(inbox[c]) = Eof
    /\ pc' = [pc EXCEPT ![c] = "eof"]
    /\ rx' = [rx EXCEPT ![c] = "none"]
    /\ inbox' = [inbox EXCEPT ![c] = Tail(@)]
    /\ UNCHANGED <<aux, data, hasWal, srv, pcx, chist, files, path, writer, cmd, resp, budget,
                   opn, mark, walOrder, memOrder, ackOrder, run, shut, task>>

\* handle_client, the branch _ = shutdown_rx.recv(): taken when recv() is
\* ready, with the value or with Err(Lagged); the handler returns.
HandlerShutdown(c) ==
    /\ pc[c] = "idle"
    /\ rx[c] \in {"signal", "lagged"}
    /\ pc' = [pc EXCEPT ![c] = "stopped"]
    /\ rx' = [rx EXCEPT ![c] = "none"]
    /\ UNCHANGED <<aux, data, hasWal, srv, pcx, chist, files, path, writer, cmd, resp, budget,
                   opn, mark, walOrder, memOrder, ackOrder, inbox, run, shut, task>>

\* Mutant of RunStart: the listener is bound while new is still restoring.
RunStart_DuringRestore ==
    /\ srv \in {"up", "restoring"}
    /\ run = "new"
    /\ run' = "select"
    /\ rx' = [rx EXCEPT ![Acceptor] = "empty"]
    /\ UNCHANGED <<aux, data, hasWal, srv, pcx, chist, files, path, writer, pc, cmd, resp, budget,
                   opn, mark, walOrder, memOrder, ackOrder, inbox, shut, task>>

\* Mutant of RunStart: the new receiver finds a value that was sent before
\* it subscribed.
RunStart_SeesEarlierSend ==
    /\ srv = "up"
    /\ run = "new"
    /\ run' = "select"
    /\ rx' = [rx EXCEPT ![Acceptor] = IF shut = <<>> THEN "empty" ELSE "signal"]
    /\ UNCHANGED <<aux, data, hasWal, srv, pcx, chist, files, path, writer, pc, cmd, resp, budget,
                   opn, mark, walOrder, memOrder, ackOrder, inbox, shut, task>>

\* run, lines 70-73: the listener is bound and the loop subscribes.
RunStart ==
    /\ srv = "up"
    /\ run = "new"
    /\ run' = "select"
    /\ rx' = [rx EXCEPT ![Acceptor] = "empty"]
    /\ UNCHANGED <<aux, data, hasWal, srv, pcx, chist, files, path, writer, pc, cmd, resp, budget,
                   opn, mark, walOrder, memOrder, ackOrder, inbox, shut, task>>

\* run, the branch listener.accept() with Ok: a waiting connection is taken.
RunAccept(c) ==
    /\ run = "select"
    /\ pc[c] = "pending"
    /\ pc' = [pc EXCEPT ![c] = "accepted"]
    /\ run' = "spawning"
    /\ UNCHANGED <<aux, data, hasWal, srv, pcx, chist, files, path, writer, cmd, resp, budget,
                   opn, mark, walOrder, memOrder, ackOrder, inbox, rx, shut, task>>

\* run, lines 82-91: the handler's receiver is subscribed and its task is
\* spawned; the loop goes back to select.
RunSpawn(c) ==
    /\ run = "spawning"
    /\ pc[c] = "accepted"
    /\ rx' = [rx EXCEPT ![c] = "empty"]
    /\ pc' = [pc EXCEPT ![c] = "idle"]
    /\ run' = "select"
    /\ UNCHANGED <<aux, data, hasWal, srv, pcx, chist, files, path, writer, cmd, resp, budget,
                   opn, mark, walOrder, memOrder, ackOrder, inbox, shut, task>>

\* run, the branch _ = shutdown_rx.recv(): the loop breaks, run returns Ok
\* and the listener and the receiver are dropped.
RunShutdown ==
    /\ run = "select"
    /\ rx[Acceptor] \in {"signal", "lagged"}
    /\ run' = "returned"
    /\ rx' = [rx EXCEPT ![Acceptor] = "none"]
    /\ UNCHANGED <<aux, data, hasWal, srv, pcx, chist, files, path, writer, pc, cmd, resp, budget,
                   opn, mark, walOrder, memOrder, ackOrder, inbox, shut, task>>

\* broadcast::Sender::send: an error when no receiver exists, and then the
\* value is not kept; otherwise every receiver finds the value, or has
\* lagged when it had not taken the value before.
Send(r) ==
    [x \in DOMAIN r |-> CASE r[x] = "empty" -> "signal"
                          [] r[x] = "signal" -> "lagged"
                          [] OTHER -> r[x]]

\* RustVaultServer::shutdown
Shutdown ==
    /\ srv = "up"
    /\ Len(shut) < MaxShutdowns
    /\ IF \A x \in Receivers : rx[x] = "none"
       THEN /\ shut' = Append(shut, "Err")
            /\ rx' = rx
       ELSE /\ shut' = Append(shut, "Ok")
            /\ rx' = Send(rx)
    /\ UNCHANGED <<aux, data, hasWal, srv, pcx, chist, files, path, writer, pc, cmd, resp, budget,
                   opn, mark, walOrder, memOrder, ackOrder, inbox, run, task>>

\* handle_client, the read branch with Err(e) (lines 146-149): the handler
\* returns and its receiver is dropped.
HandlerReadError(c) ==
    /\ pc[c] = "idle"
    /\ pc' = [pc EXCEPT ![c] = "error"]
    /\ rx' = [rx EXCEPT ![c] = "none"]
    /\ UNCHANGED <<aux, data, hasWal, srv, pcx, chist, files, path, writer, cmd, resp, budget,
                   opn, mark, walOrder, memOrder, ackOrder, inbox, run, shut, task>>

\* Mutant of WriteResponseFail: the handler also returns after it has
\* written an error response.
WriteResponseFail_ErrorResponseCloses(c) ==
    /\ pc[c] = "respond"
    /\ pc' = [pc EXCEPT ![c] = "error"]
    /\ rx' = [rx EXCEPT ![c] = "none"]
    /\ ackOrder' = IF resp[c].type = "Error"
                   THEN Append(ackOrder, [c |-> c, n |-> opn[c], cmd |-> cmd[c],
                                          resp |-> resp[c]])
                   ELSE ackOrder
    /\ UNCHANGED <<aux, data, hasWal, srv, pcx, chist, files, path, writer, cmd, resp, budget,
                   opn, mark, walOrder, memOrder, inbox, run, shut, task>>

\* handle_client, lines 136-144: writer.write_all or writer.flush fails;
\* the client does not get the response, the handler returns and its
\* receiver is dropped.
WriteResponseFail(c) ==
    /\ pc[c] = "respond"
    /\ pc' = [pc EXCEPT ![c] = "error"]
    /\ rx' = [rx EXCEPT ![c] = "none"]
    /\ UNCHANGED <<aux, data, hasWal, srv, pcx, chist, files, path, writer, cmd, resp, budget,
                   opn, mark, walOrder, memOrder, ackOrder, inbox, run, shut, task>>

\* The request lines the clients of the server send.
ServeLines == {CommandBytes(Set(K1, V1)), CommandBytes(Get(K1)), <<"x", CR, LF>>}

InitServe ==
    /\ InitStore
    /\ InitUnconnected
    /\ files = FreshFiles
    /\ data = EmptyMap
    /\ hasWal = TRUE
    /\ srv = "up"
    /\ budget = MaxServeOps

NextServe ==
    \/ RunStart
    \/ RunShutdown
    \/ Shutdown
    \/ \E c \in Clients :
         \/ ClientConnect(c)
         \/ ClientSend(c, ServeLines, MaxServeOps)
         \/ ClientClose(c)
         \/ RunAccept(c)
         \/ RunSpawn(c)
         \/ ReadLine(c)
         \/ Execute(c)
         \/ HandlerEof(c)
         \/ HandlerShutdown(c)

SpecServe == InitServe /\ [][NextServe]_vars

\* run, shutdown() and one connection.
NextServeOne ==
    \/ RunStart
    \/ RunShutdown
    \/ Shutdown
    \/ ClientConnect("c1")
    \/ ClientSend("c1", ServeLines, MaxServeOps)
    \/ ClientClose("c1")
    \/ RunAccept("c1")
    \/ RunSpawn("c1")
    \/ ReadLine("c1")
    \/ Execute("c1")
    \/ HandlerEof("c1")
    \/ HandlerShutdown("c1")

SpecServeOne == InitServe /\ [][NextServeOne]_vars

\* Connections whose reads and writes may fail.  The clients send a SET
\* and a line that does not parse, each after the response to the last.
MaxFaultOps == 1

FaultLines == {CommandBytes(Set(K1, V1)), <<"x", CR, LF>>}

InitFaults ==
    /\ InitStore
    /\ InitUnconnected
    /\ files = FreshFiles
    /\ data = EmptyMap
    /\ hasWal = TRUE
    /\ srv = "up"
    /\ budget = MaxFaultOps

NextFaults ==
    \/ RunStart
    \/ RunShutdown
    \/ Shutdown
    \/ \E c \in Clients :
         \/ ClientConnect(c)
         \/ ClientSend(c, FaultLines, 1)
         \/ ClientClose(c)
         \/ RunAccept(c)
         \/ RunSpawn(c)
         \/ ReadLine(c)
         \/ LogCommand(c)
         \/ LogCommandFail(c)
         \/ ApplyMutation(c)
         \/ WriteResponse(c)
         \/ HandlerEof(c)
         \/ HandlerShutdown(c)
         \/ HandlerReadError(c)
         \/ WriteResponseFail(c)

SpecFaults == InitFaults /\ [][NextFaults]_vars

\* The start of a server on a WAL file found on disk and, when the start
\* succeeds, run and a first client.
NextReplay ==
    \/ ServerNew
    \/ RunStart
    \/ ClientConnect("c1")
    \/ RunAccept("c1")
    \/ RunSpawn("c1")
    \/ ClientSend("c1", ServeLines, 1)
    \/ ReadLine("c1")
    \/ Execute("c1")

SpecReplay == InitReplay /\ [][NextReplay]_vars

(***************************************************************************)
(* server.rs, store.rs, wal.rs: RustVaultServer::new line by line of the   *)
(* WAL, followed by run and a first client.  task counts the lines the     *)
(* replay has read.                                                        *)
(***************************************************************************)

\* Mutant of RestoreBegin: the WAL is opened with truncate.
RestoreBegin_Truncates ==
    /\ srv = "down"
    /\ srv' = "restoring"
    /\ task' = [NoTask EXCEPT !.op = "restore"]
    /\ files' = [files EXCEPT ![path] = EmptyFile]
    /\ UNCHANGED <<aux, inbox, rx, run, shut, data, hasWal, pcx, chist, path, writer,
                   pc, cmd, resp, budget, opn, mark, walOrder, memOrder, ackOrder>>

\* new, lines 48-55: the WAL is opened, the store is created empty and
\* restore_from_wal calls wal.replay.
RestoreBegin ==
    /\ srv = "down"
    /\ srv' = "restoring"
    /\ task' = [NoTask EXCEPT !.op = "restore"]
    /\ UNCHANGED <<aux, inbox, rx, run, shut, data, hasWal, pcx, chist, files, path, writer,
                   pc, cmd, resp, budget, opn, mark, walOrder, memOrder, ackOrder>>

\* Mutant of RestoreLine: the closure applies the entry with set or delete,
\* which log it.
RestoreLine_Logs ==
    /\ srv = "restoring"
    /\ task.count < Len(FileLines(files[path]))
    /\ LET line == FileLines(files[path])[task.count + 1]
       IN  \/ /\ IsBlank(line)
              /\ task' = [task EXCEPT !.count = @ + 1]
              /\ UNCHANGED <<data, srv, files>>
           \/ /\ ~IsBlank(line) /\ FromJson(line) = ParseError
              /\ srv' = "failed"
              /\ task' = [task EXCEPT !.count = @ + 1]
              /\ UNCHANGED <<data, files>>
           \/ /\ ~IsBlank(line) /\ FromJson(line) # ParseError
              /\ data' = ApplyDirect(data, FromJson(line))
              /\ files' = [files EXCEPT ![writer] =
                              IF FromJson(line).type = "Get" THEN @ ELSE AppendLine(@, line)]
              /\ task' = [task EXCEPT !.count = @ + 1, !.found = TRUE]
              /\ UNCHANGED srv
    /\ UNCHANGED <<aux, inbox, rx, run, shut, hasWal, pcx, chist, path, writer,
                   pc, cmd, resp, budget, opn, mark, walOrder, memOrder, ackOrder>>

\* replay, lines 82-92: the next line of the file.  A blank line is
\* skipped, a line that does not parse ends the replay with an error, an
\* entry is handed to the closure.  The closure applies it, or panics in
\* block_on when the caller runs inside the runtime: then it panics at its
\* first call.  task.found tells that a call of the closure has returned.
RestoreLine ==
    /\ srv = "restoring"
    /\ task.count < Len(FileLines(files[path]))
    /\ LET line == FileLines(files[path])[task.count + 1]
       IN  \/ /\ IsBlank(line)
              /\ task' = [task EXCEPT !.count = @ + 1]
              /\ UNCHANGED <<data, srv>>
           \/ /\ ~IsBlank(line) /\ FromJson(line) = ParseError
              /\ srv' = "failed"
              /\ task' = [task EXCEPT !.count = @ + 1]
              /\ UNCHANGED data
           \/ /\ ~IsBlank(line) /\ FromJson(line) # ParseError
              /\ \/ /\ data' = ApplyDirect(data, FromJson(line))
                    /\ task' = [task EXCEPT !.count = @ + 1, !.found = TRUE]
                    /\ UNCHANGED srv
                 \/ /\ ~task.found
                    /\ srv' = "panicked"
                    /\ task' = [task EXCEPT !.count = @ + 1]
                    /\ UNCHANGED data
    /\ UNCHANGED <<aux, inbox, rx, run, shut, hasWal, pcx, chist, files, path, writer,
                   pc, cmd, resp, budget, opn, mark, walOrder, memOrder, ackOrder>>

\* replay returns Ok at the end of the file; new, lines 56-65: the channel
\* is created and the server is returned.
RestoreEnd ==
    /\ srv = "restoring"
    /\ task.count = Len(FileLines(files[path]))
    /\ srv' = "up"
    /\ UNCHANGED <<aux, inbox, rx, run, shut, task, data, hasWal, pcx, chist, files, path, writer,
                   pc, cmd, resp, budget, opn, mark, walOrder, memOrder, ackOrder>>

\* restore_from_wal is called again on the same store and the same WAL;
\* task.items keeps the keyspace each earlier call left.
MaxRestores == 2

RestoreAgain ==
    /\ srv \in {"up", "failed", "panicked"}
    /\ task.op = "restore"
    /\ Len(task.items) + 1 < MaxRestores
    /\ srv' = "restoring"
    /\ task' = [task EXCEPT !.count = 0, !.found = FALSE, !.items = Append(@, data)]
    /\ UNCHANGED <<aux, inbox, rx, run, shut, data, hasWal, pcx, chist, files, path, writer,
                   pc, cmd, resp, budget, opn, mark, walOrder, memOrder, ackOrder>>

NextRestoreTwice == RestoreBegin \/ RestoreLine \/ RestoreEnd \/ RestoreAgain

SpecRestoreTwice == InitRestore /\ [][NextRestoreTwice]_vars

NextStart ==
    \/ RestoreBegin
    \/ RestoreLine
    \/ RestoreEnd
    \/ RunStart
    \/ ClientConnect("c1")
    \/ RunAccept("c1")
    \/ RunSpawn("c1")
    \/ ClientSend("c1", ServeLines, 1)
    \/ ReadLine("c1")
    \/ Execute("c1")

SpecStart == InitRestore /\ [][NextStart]_vars

\* The same with a task that calls clear on the store of the server.
NextStartClear == NextStart \/ Clear

SpecStartClear == InitRestore /\ [][NextStartClear]_vars

(***************************************************************************)
(* One connection whose client writes arbitrary lines and reads the        *)
(* response of each before it writes the next.                             *)
(***************************************************************************)
MaxWireOps == 2

WireVerbs == {VerbSet, VerbGet, VerbDelete, <<"P", "U", "T">>, <<"s", "e", "t">>, <<>>}
WireGaps == {<<>>, <<SP>>, <<SP, SP>>, <<TAB>>}
WireKeys == {<<>>, <<"k">>}
WireValues == {<<>>, <<"v">>, <<"v", SP>>, <<"a", SP, "b">>, <<"a", CR, "b">>}
WireEnds == {<<LF>>, <<CR, LF>>}

\* The lines read_line may return: each ends with its newline.
WireLines ==
    {v \o g1 \o k \o g2 \o w \o e :
        v \in WireVerbs, g1 \in WireGaps, k \in WireKeys, g2 \in WireGaps,
        w \in WireValues, e \in WireEnds}

InitWire ==
    /\ InitStore
    /\ InitConnected
    /\ files = FreshFiles
    /\ data = EmptyMap
    /\ hasWal = TRUE
    /\ srv = "up"
    /\ budget = MaxWireOps

NextWire ==
    \/ ClientSend("c1", WireLines, 1)
    \/ ReadLine("c1")
    \/ Execute("c1")

SpecWire == InitWire /\ [][NextWire]_vars

(***************************************************************************)
(* client.rs: the client library on one connection.  A call writes the     *)
(* bytes of its request, reads one line of the response stream, trims and  *)
(* parses it, and maps the response to its result.                         *)
(***************************************************************************)
MaxLibOps == 3

\* read_line on a byte stream: the lines of q, each with its newline; bytes
\* after the last newline are not a line yet.
SplitLines(q) ==
    LET ends == {i \in 1..Len(q) : q[i] = LF}
        Nth(j) == CHOOSE i \in ends : Cardinality({x \in ends : x < i}) = j - 1
    IN  [j \in 1..Cardinality(ends) |->
            SubSeq(q, IF j = 1 THEN 1 ELSE Nth(j - 1) + 1, Nth(j))]

\* Response::to_bytes
ResponseBytes(r) ==
    CASE r.type = "Ok" -> <<"O", "K", CR, LF>>
      [] r.type = "Value" -> <<"V", "A", "L", "U", "E", SP>> \o r.payload \o <<CR, LF>>
      [] r.type = "NotFound" -> <<"N", "O", "T", "_", "F", "O", "U", "N", "D", CR, LF>>
      [] r.type = "Error" -> <<"E", "R", "R", "O", "R", SP>> \o r.payload \o <<CR, LF>>

\* Err(RustVaultError::Protocol("Unknown response format"))
UnknownResponse == [type |-> "Unknown", payload |-> NoValue]

\* Client::parse_response, on the trimmed line.
parse_response(t) ==
    CASE t = <<"O", "K">> -> Ok
      [] t = <<"N", "O", "T", "_", "F", "O", "U", "N", "D">> -> NotFound
      [] Tag(t, <<"V", "A", "L", "U", "E", SP>>) -> Value(Drop(t, Len(<<"V", "A", "L", "U", "E", SP>>)))
      [] Tag(t, <<"E", "R", "R", "O", "R", SP>>) -> Error(Drop(t, Len(<<"E", "R", "R", "O", "R", SP>>)))
      [] OTHER -> UnknownResponse

\* Mutant of ReadResponse: the line is parsed as read, with its terminator.
ReadResponse_Untrimmed(line) == parse_response(line)

\* send_command, lines 41-45: the line read is trimmed and parsed.
ReadResponse(line) == parse_response(Trim(line))

\* The results of Client::set, get and delete.
Returned(kind, v) == [kind |-> kind, value |-> v]

\* Mutant of CallResult: delete returns true for NOT_FOUND as well.
CallResult_DeleteAlwaysTrue(c, r) ==
    CASE r.type = "Error" -> Returned("server_error", r.payload)
      [] c.type = "Set" /\ r.type = "Ok" -> Returned("unit", NoValue)
      [] c.type = "Get" /\ r.type = "Value" -> Returned("some", r.payload)
      [] c.type = "Get" /\ r.type = "NotFound" -> Returned("none", NoValue)
      [] c.type = "Delete" /\ r.type \in {"Ok", "NotFound"} -> Returned("true", NoValue)
      [] OTHER -> Returned("protocol_error", NoValue)

\* Client::set, get, delete: the match on the response.
CallResult(c, r) ==
    CASE r.type = "Error" -> Returned("server_error", r.payload)
      [] c.type = "Set" /\ r.type = "Ok" -> Returned("unit", NoValue)
      [] c.type = "Get" /\ r.type = "Value" -> Returned("some", r.payload)
      [] c.type = "Get" /\ r.type = "NotFound" -> Returned("none", NoValue)
      [] c.type = "Delete" /\ r.type = "Ok" -> Returned("true", NoValue)
      [] c.type = "Delete" /\ r.type = "NotFound" -> Returned("false", NoValue)
      [] OTHER -> Returned("protocol_error", NoValue)

\* The bytes the server has written to the connection of c, and their lines.
RECURSIVE WrittenFrom(_, _, _)
WrittenFrom(c, h, i) ==
    IF i > Len(h) THEN <<>>
    ELSE (IF h[i].c = c THEN ResponseBytes(h[i].resp) ELSE <<>>) \o WrittenFrom(c, h, i + 1)

Written(c, h) == WrittenFrom(c, h, 1)

ResponseLines(c) == SplitLines(Written(c, ackOrder))

\* The keys and values the caller passes: a key without spaces; values with
\* a space, a tab, a quote, a carriage return, a newline inside.
LibKeys == {<<"k">>}
LibValues == {<<"v">>, <<"a", SP, "b">>, <<"a", TAB, "b">>, <<"a", QUOTE, "b">>,
              <<"a", CR, "b">>, <<"a", LF, "b">>}
LibCommands ==
    {Set(k, v) : k \in LibKeys, v \in LibValues}
        \cup {Get(k) : k \in LibKeys} \cup {Delete(k) : k \in LibKeys}

\* send_command, lines 30-38: the request is formatted, written and flushed.
LibCall(c, cmds) ==
    /\ Connected(c)
    /\ call[c].cmd = NoCommand
    /\ \E x \in cmds :
         /\ SumUnread(Clients) + Len(SplitLines(CommandBytes(x))) <= budget
         /\ inbox' = [inbox EXCEPT ![c] = @ \o SplitLines(CommandBytes(x))]
         /\ call' = [call EXCEPT ![c].cmd = x]
    /\ UNCHANGED <<data, hasWal, srv, pcx, chist, files, path, writer, pc, cmd, resp, budget,
                   opn, mark, walOrder, memOrder, ackOrder, rx, run, shut, task, probe, lock>>

\* send_command, lines 41-45, and the match of set, get or delete: the next
\* line of the response stream is read and the call returns.
LibReturn(c) ==
    /\ call[c].cmd # NoCommand
    /\ Len(ResponseLines(c)) > call[c].read
    /\ call' = [call EXCEPT
                   ![c] = [cmd |-> NoCommand,
                           read |-> @.read + 1,
                           log |-> Append(@.log,
                                     [cmd |-> @.cmd,
                                      result |-> CallResult(@.cmd,
                                          ReadResponse(ResponseLines(c)[@.read + 1]))])]]
    /\ UNCHANGED <<data, hasWal, srv, pcx, chist, files, path, writer, pc, cmd, resp, budget,
                   opn, mark, walOrder, memOrder, ackOrder, inbox, rx, run, shut, task, probe,
                   lock>>

InitLib ==
    /\ InitStore
    /\ InitConnected
    /\ files = FreshFiles
    /\ data = EmptyMap
    /\ hasWal \in BOOLEAN
    /\ srv = "up"
    /\ budget = MaxLibOps

NextLib ==
    \/ LibCall("c1", LibCommands)
    \/ ReadLine("c1")
    \/ Execute("c1")
    \/ LibReturn("c1")

SpecLib == InitLib /\ [][NextLib]_vars

(***************************************************************************)
(* The serializer and the parsers called on their own: probe holds the     *)
(* value serialized (in), the bytes (bytes) and what the parser returned   *)
(* for them (out).                                                         *)
(***************************************************************************)
MaxPayloadLen == 3

\* A server that serves nobody: the store and the connections stay as they
\* are while the functions are called.
InitProbe ==
    /\ InitStore
    /\ InitConnected
    /\ files = FreshFiles
    /\ data = EmptyMap
    /\ hasWal = TRUE
    /\ srv = "up"
    /\ budget = 0

\* Payloads without newline: letters, spaces and carriage returns.
Payloads == SeqsUpTo({"a", SP, CR}, MaxPayloadLen)

Responses == {Ok, NotFound} \cup {Value(v) : v \in Payloads} \cup {Error(e) : e \in Payloads}

\* Response::to_bytes is called on a response.
Serialize(rs) ==
    /\ probe = NoProbe
    /\ \E r \in rs : probe' = [in |-> r, bytes |-> ResponseBytes(r), out |-> NoResponse]
    /\ UNCHANGED <<net_but_probe, data, hasWal, srv, pcx, chist, files, path, writer, pc, cmd, resp,
                   budget, opn, mark, walOrder, memOrder, ackOrder>>

\* The client reads the line of the bytes and parses it (send_command,
\* lines 41-45).
ClientParse ==
    /\ probe.bytes # <<>>
    /\ probe.out = NoResponse
    /\ SplitLines(probe.bytes) # <<>>
    /\ probe' = [probe EXCEPT !.out = ReadResponse(Head(SplitLines(probe.bytes)))]
    /\ UNCHANGED <<net_but_probe, data, hasWal, srv, pcx, chist, files, path, writer, pc, cmd, resp,
                   budget, opn, mark, walOrder, memOrder, ackOrder>>

\* parse_command is called on the bytes of a line.
ParseCommand(lines) ==
    /\ probe = NoProbe
    /\ \E raw \in lines :
         probe' = [in |-> NoCommand, bytes |-> raw, out |-> parse_command(raw)]
    /\ UNCHANGED <<net_but_probe, data, hasWal, srv, pcx, chist, files, path, writer, pc, cmd, resp,
                   budget, opn, mark, walOrder, memOrder, ackOrder>>

NextParse == ParseCommand(WireLines)

SpecParse == InitProbe /\ [][NextParse]_vars

NextRoundTrip == Serialize(Responses) \/ ClientParse

SpecRoundTrip == InitProbe /\ [][NextRoundTrip]_vars

(***************************************************************************)
(* store.rs, wal.rs: the locks.  Each operation takes its locks one after  *)
(* the other; a guard is dropped at the end of the block that took it.     *)
(* The RwLock of tokio serves its waiters in the order of their requests.  *)
(***************************************************************************)
MaxLockOps == 4

LockOps == {"set", "delete", "get", "get_all", "clear", "compact"}

\* Mutant of Plan: set and delete take the store write lock first.
Plan_WriteLockFirst(op) ==
    CASE op \in {"set", "delete"} -> IF hasWal THEN <<"write", "wal">> ELSE <<"write">>
      [] op \in {"get", "get_all"} -> <<"read">>
      [] op = "clear" -> <<"write">>
      [] op = "compact" -> <<"wal">>

\* The locks an operation takes, in order: set and delete call
\* wal.log_command (write_entry locks the writer) and then data.write();
\* get and get_all (the snapshot) call data.read(); clear calls
\* data.write(); compact locks the writer to replace it.
Plan(op) ==
    CASE op \in {"set", "delete"} -> IF hasWal THEN <<"wal", "write">> ELSE <<"write">>
      [] op \in {"get", "get_all"} -> <<"read">>
      [] op = "clear" -> <<"write">>
      [] op = "compact" -> <<"wal">>

\* Task t requests lock l: the request for the RwLock joins the queue.
Request(lk, t, l) ==
    IF l = "wal" THEN lk ELSE [lk EXCEPT !.queue = Append(@, t)]

\* A task calls an operation and requests its first lock.
Begin(t) ==
    /\ lock.at[t].pos = "idle"
    /\ budget > 0
    /\ \E op \in LockOps :
         /\ op = "compact" => hasWal
         /\ lock' = [Request(lock, t, Head(Plan(op))) EXCEPT
                        !.at[t] = [NoCallOfTask EXCEPT !.op = op, !.plan = Plan(op),
                                                       !.pos = "want"]]
    /\ budget' = budget - 1
    /\ UNCHANGED <<data, hasWal, srv, pcx, chist, files, path, writer, pc, cmd, resp, opn, mark,
                   walOrder, memOrder, ackOrder, inbox, rx, run, shut, task, call, probe>>

\* lock().await, read().await or write().await returns the guard.
Acquire(t) ==
    /\ lock.at[t].pos = "want"
    /\ LET l == Head(lock.at[t].plan)
       IN  /\ l = "wal" => lock.writer = "free"
           /\ l # "wal" => lock.queue # <<>> /\ Head(lock.queue) = t /\ lock.wr = "free"
           /\ l = "write" => lock.readers = {}
           /\ lock' = [lock EXCEPT
                          !.writer = IF l = "wal" THEN t ELSE @,
                          !.wr = IF l = "write" THEN t ELSE @,
                          !.readers = IF l = "read" THEN @ \cup {t} ELSE @,
                          !.queue = IF l = "wal" THEN @ ELSE Tail(@),
                          !.at[t].pos = "hold"]
    /\ UNCHANGED <<data, hasWal, srv, pcx, chist, files, path, writer, pc, cmd, resp, budget, opn,
                   mark, walOrder, memOrder, ackOrder, inbox, rx, run, shut, task, call, probe>>

\* The guard is dropped; the task requests its next lock or returns.
Release(t) ==
    /\ lock.at[t].pos = "hold"
    /\ LET l == Head(lock.at[t].plan)
           rest == Tail(lock.at[t].plan)
           freed == [lock EXCEPT
                        !.writer = IF l = "wal" THEN "free" ELSE @,
                        !.wr = IF l = "write" THEN "free" ELSE @,
                        !.readers = IF l = "read" THEN @ \ {t} ELSE @]
       IN  lock' = IF rest = <<>>
                   THEN [freed EXCEPT !.at[t] = NoCallOfTask]
                   ELSE [Request(freed, t, Head(rest)) EXCEPT
                            !.at[t].plan = rest,
                            !.at[t].done = Append(@, l),
                            !.at[t].pos = "want"]
    /\ UNCHANGED <<data, hasWal, srv, pcx, chist, files, path, writer, pc, cmd, resp, budget, opn,
                   mark, walOrder, memOrder, ackOrder, inbox, rx, run, shut, task, call, probe>>

InitLocks ==
    /\ InitStore
    /\ InitConnected
    /\ files = FreshFiles
    /\ data = EmptyMap
    /\ hasWal \in BOOLEAN
    /\ srv = "up"
    /\ budget = MaxLockOps

\* A task inside a call moves on.
Progress == \E t \in LockTasks : Acquire(t) \/ Release(t)

NextLocks == (\E t \in LockTasks : Begin(t)) \/ Progress

SpecLocks == InitLocks /\ [][NextLocks]_vars

(***************************************************************************)
(* wal.rs: write_entry, statement by statement, called by concurrent       *)
(* tasks through log_command (set and delete).  writeln! hands the entry   *)
(* and then the newline to the BufWriter, flush writes the bytes the       *)
(* BufWriter holds to the file.  An append fails here where                *)
(* serde_json::to_string fails, before a byte is handed over; errors of    *)
(* the write itself are not modelled.                                      *)
(***************************************************************************)
MaxAppendOps == 3

\* write(2) of bytes q at the end of a file opened for append.
WriteBytes(f, q) ==
    LET all == f.tail \o q
        ls == SplitLines(all)
        ends == {i \in 1..Len(all) : all[i] = LF}
        last == IF ends = {} THEN 0 ELSE CHOOSE i \in ends : \A j \in ends : j <= i
    IN  [lines |-> f.lines \o [j \in 1..Len(ls) |-> SubSeq(ls[j], 1, Len(ls[j]) - 1)],
         tail |-> SubSeq(all, last + 1, Len(all))]

\* The commands the tasks append: a task's own, so that the lines differ.
AppendArgs == [t \in LockTasks |->
                 CASE t = "t1" -> {Set(K1, V1)}
                   [] t = "t2" -> {Set(K2, V2), Delete(K1)}
                   [] OTHER -> {Delete(K2)}]

\* Mutant of LockWriter: the lock is handed out while another task has it.
LockWriter_NotExclusive(t) ==
    /\ lock.at[t].pos = "want"
    /\ lock.at[t].op = "append"
    /\ lock' = [lock EXCEPT !.writer = t, !.at[t].pos = "hold"]
    /\ UNCHANGED <<data, hasWal, srv, pcx, chist, files, path, writer, pc, cmd, resp, budget, opn,
                   mark, walOrder, memOrder, ackOrder, inbox, rx, run, shut, task, call, probe>>

\* write_entry, line 57: self.writer.lock().await returns the guard.
LockWriter(t) ==
    /\ lock.at[t].pos = "want"
    /\ lock.at[t].op = "append"
    /\ lock.writer = "free"
    /\ lock' = [lock EXCEPT !.writer = t, !.at[t].pos = "hold"]
    /\ UNCHANGED <<data, hasWal, srv, pcx, chist, files, path, writer, pc, cmd, resp, budget, opn,
                   mark, walOrder, memOrder, ackOrder, inbox, rx, run, shut, task, call, probe>>

\* log_command: the entry is built and write_entry is called.
AppendBegin(t) ==
    /\ lock.at[t].pos = "idle"
    /\ budget > 0
    /\ \E c \in AppendArgs[t] :
         lock' = [lock EXCEPT !.at[t] = [NoCallOfTask EXCEPT !.op = "append",
                                                             !.plan = <<"wal">>,
                                                             !.pos = "want",
                                                             !.arg = c]]
    /\ budget' = budget - 1
    /\ UNCHANGED <<data, hasWal, srv, pcx, chist, files, path, writer, pc, cmd, resp, opn, mark,
                   walOrder, memOrder, ackOrder, inbox, rx, run, shut, task, call, probe>>

\* write_entry, lines 58-59: writeln! writes the entry and then the newline
\* to the BufWriter.
WriteLn(t) ==
    /\ lock.at[t].pos = "hold"
    /\ lock.at[t].op = "append"
    /\ \/ /\ lock.at[t].done = <<>>
          /\ lock' = [lock EXCEPT !.buf = @ \o ToJson(lock.at[t].arg),
                                  !.at[t].done = <<"entry">>]
       \/ /\ lock.at[t].done = <<"entry">>
          /\ lock' = [lock EXCEPT !.buf = Append(@, LF),
                                  !.at[t].done = <<"entry", "newline">>]
    /\ UNCHANGED <<data, hasWal, srv, pcx, chist, files, path, writer, pc, cmd, resp, budget, opn,
                   mark, walOrder, memOrder, ackOrder, inbox, rx, run, shut, task, call, probe>>

\* write_entry, line 60: writer.flush() writes what the BufWriter holds.
Flush(t) ==
    /\ lock.at[t].pos = "hold"
    /\ lock.at[t].done = <<"entry", "newline">>
    /\ files' = [files EXCEPT ![writer] = WriteBytes(@, lock.buf)]
    /\ lock' = [lock EXCEPT !.buf = <<>>, !.at[t].done = <<"entry", "newline", "flush">>]
    /\ walOrder' = Append(walOrder, [c |-> t, n |-> Len(walOrder) + 1, cmd |-> lock.at[t].arg])
    /\ UNCHANGED <<data, hasWal, srv, pcx, chist, path, writer, pc, cmd, resp, budget, opn,
                   mark, memOrder, ackOrder, inbox, rx, run, shut, task, call, probe>>

\* write_entry returns: Ok(()) after the flush, or the error of
\* serde_json::to_string before anything was written; the guard is dropped.
WriteEntryReturn(t) ==
    /\ lock.at[t].pos = "hold"
    /\ lock.at[t].op = "append"
    /\ lock.at[t].done \in {<<>>, <<"entry", "newline", "flush">>}
    /\ lock' = [lock EXCEPT !.writer = IF @ = t THEN "free" ELSE @,
                            !.at[t] = NoCallOfTask]
    /\ UNCHANGED <<data, hasWal, srv, pcx, chist, files, path, writer, pc, cmd, resp, budget, opn,
                   mark, walOrder, memOrder, ackOrder, inbox, rx, run, shut, task, call, probe>>

InitAppend ==
    /\ InitStore
    /\ InitConnected
    /\ files = FreshFiles
    /\ data = EmptyMap
    /\ hasWal = TRUE
    /\ srv = "up"
    /\ budget = MaxAppendOps

NextAppend ==
    \E t \in LockTasks :
        \/ AppendBegin(t)
        \/ LockWriter(t)
        \/ WriteLn(t)
        \/ Flush(t)
        \/ WriteEntryReturn(t)

SpecAppend == InitAppend /\ [][NextAppend]_vars

(***************************************************************************)
(* store.rs: the read-only operations, called by a task that holds the     *)
(* store, while a connection is served.                                    *)
(***************************************************************************)
MaxReadOps == 2

\* MemoryStore::get
TaskGet(k) ==
    task' = [NoTask EXCEPT !.op = "get", !.key = k, !.found = Exists(data, k),
                           !.items = IF Exists(data, k) THEN <<<<k, data[k]>>>> ELSE <<>>]

\* MemoryStore::exists
TaskExists(k) ==
    task' = [NoTask EXCEPT !.op = "exists", !.key = k, !.found = Exists(data, k)]

\* MemoryStore::get_all
TaskGetAll ==
    \E q \in Listings(data) :
        task' = [NoTask EXCEPT !.op = "get_all",
                               !.items = [i \in 1..Len(q) |-> <<q[i], data[q[i]]>>]]

\* MemoryStore::len
TaskLen ==
    task' = [NoTask EXCEPT !.op = "len", !.count = Cardinality(DOMAIN data)]

StoreRead ==
    /\ srv = "up"
    /\ \/ \E k \in Keys : TaskGet(k) \/ TaskExists(k)
       \/ TaskGetAll
       \/ TaskLen
    /\ UNCHANGED <<aux, data, hasWal, srv, pcx, chist, files, path, writer, pc, cmd, resp, budget,
                   opn, mark, walOrder, memOrder, ackOrder, inbox, rx, run, shut>>

InitReaders ==
    /\ InitStore
    /\ InitConnected
    /\ files = FreshFiles
    /\ data = EmptyMap
    /\ hasWal \in BOOLEAN
    /\ srv = "up"
    /\ budget = MaxReadOps

NextReaders == Handler("c1", RequestLines) \/ StoreRead

SpecReaders == InitReaders /\ [][NextReaders]_vars

(***************************************************************************)
(* Notions the properties share.                                           *)
(***************************************************************************)
PosIn(seq, x) == CHOOSE i \in 1..Len(seq) : seq[i] = x

\* No handler is inside a request: every request read has been answered.
Quiescent == \A c \in Clients : pc[c] = "idle"

\* The request an acknowledgement belongs to.
OpOf(a) == [c |-> a.c, n |-> a.n, cmd |-> a.cmd]

\* An acknowledged mutation: Set answered OK, Delete answered OK or NOT_FOUND.
IsMutationAck(a) == a.cmd \in Mutations /\ a.resp.type \in {"Ok", "NotFound"}

\* What a reference map answers to get(k) after the mutations of h, in order.
RECURSIVE RefGet(_, _)
RefGet(h, k) ==
    IF h = <<>> THEN NotFound
    ELSE LET last == h[Len(h)]
         IN  IF last.cmd.key = k /\ last.cmd.type = "Set" THEN Value(last.cmd.value)
             ELSE IF last.cmd.key = k /\ last.cmd.type = "Delete" THEN NotFound
             ELSE RefGet(SubSeq(h, 1, Len(h) - 1), k)

(***************************************************************************)
(* C1: two mutations of the same key issued by different connections       *)
(* change the in-memory mapping in the order in which their entries were   *)
(* appended to the WAL.                                                    *)
(***************************************************************************)
C1_MemOrderIsWalOrder ==
    \A i, j \in 1..Len(memOrder) :
        ( /\ i < j
          /\ memOrder[i].c # memOrder[j].c
          /\ memOrder[i].cmd.key = memOrder[j].cmd.key
          /\ memOrder[i] \in Range(walOrder)
          /\ memOrder[j] \in Range(walOrder) )
        => PosIn(walOrder, memOrder[i]) < PosIn(walOrder, memOrder[j])

(***************************************************************************)
(* C2: replay equivalence.  Once every request has been answered, a new    *)
(* server started on the WAL succeeds and its replay from an empty         *)
(* keyspace yields the in-memory keyspace of the running server.           *)
(***************************************************************************)
C2_ReplayEquivalence ==
    Quiescent => RestoreFromWal(files[path]) = [ok |-> TRUE, data |-> data]

(***************************************************************************)
(* C9: after the parallel writers each set the same key to a distinct      *)
(* value and all were answered OK, get(k) returns one of those values and  *)
(* replay of the WAL yields the same value for k.                          *)
(***************************************************************************)
ParallelWritersDone(k) ==
    /\ Quiescent
    /\ Len(ackOrder) = Cardinality(Clients)
    /\ \A i \in 1..Len(ackOrder) :
         /\ ackOrder[i].cmd.type = "Set"
         /\ ackOrder[i].cmd.key = k
         /\ ackOrder[i].resp = Ok
    /\ \A i, j \in 1..Len(ackOrder) :
         i # j => /\ ackOrder[i].c # ackOrder[j].c
                  /\ ackOrder[i].cmd.value # ackOrder[j].cmd.value

C9_ParallelWriters ==
    \A k \in Keys :
        ParallelWritersDone(k) =>
            /\ k \in DOMAIN data
            /\ data[k] \in {ackOrder[i].cmd.value : i \in 1..Len(ackOrder)}
            /\ RestoreFromWal(files[path]).ok
            /\ k \in DOMAIN RestoreFromWal(files[path]).data
            /\ RestoreFromWal(files[path]).data[k] = data[k]

(***************************************************************************)
(* C3: durability ordering.  The WAL entry of a mutation is appended       *)
(* before the mapping changes and the mapping changes before the response  *)
(* is written: every mutation that changed memory, every mutation that was *)
(* acknowledged and every value visible in memory has its entry in the     *)
(* WAL file.                                                               *)
(***************************************************************************)
C3_DurableBeforeVisible ==
    /\ FileLines(files[path]) = [i \in 1..Len(walOrder) |-> ToJson(walOrder[i].cmd)]
    /\ \A i \in 1..Len(memOrder) : memOrder[i] \in Range(walOrder)
    /\ \A i \in 1..Len(ackOrder) :
         IsMutationAck(ackOrder[i]) =>
             /\ OpOf(ackOrder[i]) \in Range(memOrder)
             /\ ToJson(ackOrder[i].cmd) \in Range(FileLines(files[path]))
    /\ \A c \in Clients :
         (pc[c] = "respond" /\ cmd[c] \in Mutations /\ resp[c].type # "Error")
             => Op(c) \in Range(memOrder)
    /\ \A k \in DOMAIN data :
         ToJson(Set(k, data[k])) \in Range(FileLines(files[path]))

\* A Set was acknowledged and its value is visible in memory.
C3_Witness ==
    \E i \in 1..Len(ackOrder) :
        /\ ackOrder[i].cmd.type = "Set"
        /\ ackOrder[i].resp = Ok
        /\ ackOrder[i].cmd.key \in DOMAIN data
        /\ data[ackOrder[i].cmd.key] = ackOrder[i].cmd.value

(***************************************************************************)
(* C5: when the WAL append of a set or delete fails, the request never     *)
(* changes the in-memory mapping and its response is ERROR, never OK.      *)
(***************************************************************************)
C5_AppendFailureLeavesMemory ==
    /\ \A c \in Clients :
         (pc[c] \in {"mem", "respond"} /\ cmd[c] \in Mutations
            /\ Op(c) \notin Range(walOrder))
             => /\ pc[c] = "respond"
                /\ resp[c].type = "Error"
                /\ Op(c) \notin Range(memOrder)
    /\ \A i \in 1..Len(ackOrder) :
         (ackOrder[i].cmd \in Mutations /\ OpOf(ackOrder[i]) \notin Range(walOrder))
             => /\ ackOrder[i].resp.type = "Error"
                /\ OpOf(ackOrder[i]) \notin Range(memOrder)

\* The ERROR response of a set whose append failed has reached the client,
\* while the key it named holds the value of an earlier set.
C5_Witness ==
    \E i \in 1..Len(ackOrder) :
        /\ ackOrder[i].cmd.type = "Set"
        /\ ackOrder[i].resp.type = "Error"
        /\ ackOrder[i].cmd.key \in DOMAIN data
        /\ data[ackOrder[i].cmd.key] # ackOrder[i].cmd.value

(***************************************************************************)
(* C4, as claimed: once Set(k,v) is acknowledged, a Get(k) read after the  *)
(* acknowledgement returns Value(v) as long as no other Set(k,_) or        *)
(* Delete(k) has been acknowledged.                                        *)
(***************************************************************************)
AckedOn(h, k) ==
    LET OnKey(a) == IsMutationAck(a) /\ a.cmd.key = k
    IN  SelectSeq(h, OnKey)

C4_AckedSetUntilNextAck ==
    \A c \in Clients :
        (pc[c] = "respond" /\ cmd[c].type = "Get") =>
            LET k == cmd[c].key
                before == AckedOn(SubSeq(ackOrder, 1, mark[c].acks), k)
                since == AckedOn(SubSeq(ackOrder, mark[c].acks + 1, Len(ackOrder)), k)
            IN  ( /\ before # <<>>
                  /\ before[Len(before)].cmd.type = "Set"
                  /\ since = <<>> )
                => resp[c] = Value(before[Len(before)].cmd.value)

(***************************************************************************)
(* C4, amended: a Get(k) returns what the mutations of k applied to memory *)
(* before its read leave there: Value(v) of the last applied Set(k,v)      *)
(* until another Set(k,_) or Delete(k) is applied to memory.  A mutation   *)
(* is applied before it is acknowledged, so the value a Get returns may    *)
(* belong to a mutation that is not acknowledged yet.                      *)
(***************************************************************************)
C4_GetReturnsLastApplied ==
    /\ \A c \in Clients :
         (pc[c] = "respond" /\ cmd[c].type = "Get") =>
             resp[c] = RefGet(SubSeq(memOrder, 1, mark[c].mems), cmd[c].key)
    /\ \A i \in 1..Len(ackOrder) :
         IsMutationAck(ackOrder[i]) => OpOf(ackOrder[i]) \in Range(memOrder)

\* A Get returned the value of a Set that is applied but not acknowledged,
\* while an older acknowledged Set of the key exists.
C4_Witness ==
    \E c, d \in Clients :
        /\ pc[c] = "respond" /\ cmd[c].type = "Get"
        /\ pc[d] = "respond" /\ cmd[d].type = "Set" /\ resp[d] = Ok
        /\ cmd[d].key = cmd[c].key
        /\ resp[c] = Value(cmd[d].value)
        /\ \E i \in 1..mark[c].acks :
             /\ ackOrder[i].cmd.type = "Set" /\ ackOrder[i].resp = Ok
             /\ ackOrder[i].cmd.key = cmd[c].key
             /\ ackOrder[i].cmd.value # cmd[d].value

(***************************************************************************)
(* C6: partial-tail tolerance.  When the WAL is a sequence of complete     *)
(* entries followed by a truncated final entry without newline, the server *)
(* starts and the restored keyspace is the one of the complete entries.    *)
(***************************************************************************)
ValidEntries(ls) == \A i \in 1..Len(ls) : ls[i] \in EntryLines

C6_PartialTailTolerated ==
    ( /\ srv \notin {"down", "panicked"}
      /\ ValidEntries(files[path].lines)
      /\ files[path].tail \in UNION {Truncations(l) : l \in EntryLines} )
    => /\ srv = "up"
       /\ data = ReplayLines(files[path].lines, EmptyMap).data

(***************************************************************************)
(* C10: when the operations of a store do not overlap, get(k) returns the  *)
(* value of the most recent successful set(k,v) that no delete(k) follows, *)
(* and NOT_FOUND when there is none: the store is a reference map.         *)
(***************************************************************************)
C10_ReferenceMap ==
    \A c \in Clients :
        (pc[c] = "respond" /\ cmd[c].type = "Get") =>
            resp[c] = RefGet(SelectSeq(ackOrder, IsMutationAck), cmd[c].key)

\* Overwrite: set(k,v1); set(k,v2); get(k) has returned v2.
C10_Witness ==
    /\ Len(ackOrder) = 2
    /\ ackOrder[1].cmd = Set(K1, V1) /\ ackOrder[1].resp = Ok
    /\ ackOrder[2].cmd = Set(K1, V2) /\ ackOrder[2].resp = Ok
    /\ pc["c1"] = "respond" /\ cmd["c1"] = Get(K1)
    /\ resp["c1"] = Value(V2)

(***************************************************************************)
(* C7: with compact running concurrently with set and delete, no entry is  *)
(* appended to the old WAL file after the rename, and once a compaction    *)
(* has run and every request is answered, replay of the WAL at the path    *)
(* yields the in-memory keyspace.                                          *)
(***************************************************************************)
Compacted == path # 1 /\ pcx = "idle"

C7_CompactionLosesNothing ==
    [][ /\ (\E c \in Clients : pc[c] = "wal" /\ pc'[c] = "mem") => writer = path
        /\ (Compacted /\ Quiescent)' =>
               (RestoreFromWal(files[path]) = [ok |-> TRUE, data |-> data])' ]_vars

(***************************************************************************)
(* C8, as claimed: after a compaction during which no set or delete was    *)
(* in flight, replay of the WAL yields the keyspace that replay yielded    *)
(* before the compaction, which is the in-memory keyspace.                 *)
(***************************************************************************)
C8_ReplayAsBeforeCompaction ==
    chist.clean = "done" =>
        /\ RestoreFromWal(files[path]) = chist.before
        /\ RestoreFromWal(files[path]) = [ok |-> TRUE, data |-> data]

(***************************************************************************)
(* C8, amended: after a compaction during which no set, delete or clear    *)
(* ran, replay of the WAL yields the in-memory keyspace (the snapshot).    *)
(* It is the keyspace replay yielded before the compaction only if memory  *)
(* agreed with the WAL then, which clear() breaks.                         *)
(***************************************************************************)
C8_ReplayIsSnapshot ==
    chist.clean = "done" =>
        /\ RestoreFromWal(files[path]) = [ok |-> TRUE, data |-> data]
        /\ writer = path

\* A compaction of a non-empty keyspace has completed and the WAL holds
\* fewer entries than were appended before it.
C8_Witness ==
    /\ chist.clean = "done"
    /\ Cardinality(DOMAIN data) >= 1
    /\ Len(walOrder) > Len(FileLines(files[path]))

(***************************************************************************)
(* C11: a delete(k) that completes returns true (OK on the wire) exactly   *)
(* when k was present when it removed it and false (NOT_FOUND) otherwise,  *)
(* and k is absent afterwards; after set(k,v); delete(k) a get(k) is       *)
(* NOT_FOUND, exists(k) is false and a second delete(k) returns false.     *)
(***************************************************************************)
C11_DeleteRemoves ==
    [][ /\ \A c \in Clients :
             (pc[c] = "mem" /\ cmd[c].type = "Delete" /\ pc'[c] = "respond") =>
                 /\ resp'[c] = IF Exists(data, cmd[c].key) THEN Ok ELSE NotFound
                 /\ ~Exists(data', cmd[c].key)
                 /\ \A k \in DOMAIN data \ {cmd[c].key} :
                        Exists(data', k) /\ data'[k] = data[k]
        /\ \A i \in 1..(Len(ackOrder') - 1) :
             LET a == ackOrder'[i]
                 b == ackOrder'[i + 1]
             IN  ( /\ a.cmd.type \in {"Set", "Delete"} /\ a.resp.type # "Error"
                   /\ b.cmd.type = "Delete" /\ b.cmd.key = a.cmd.key
                   /\ b.resp.type # "Error" )
                 => /\ b.resp = IF a.cmd.type = "Set" THEN Ok ELSE NotFound
                    /\ (i + 1 = Len(ackOrder') /\ Quiescent')
                           => ~Exists(data', b.cmd.key)
                    /\ \A c \in Clients :
                          ( /\ i + 1 = Len(ackOrder') /\ pc'[c] = "respond"
                            /\ cmd'[c].type \in {"Get", "Delete"}
                            /\ cmd'[c].key = b.cmd.key /\ resp'[c].type # "Error" )
                          => resp'[c] = NotFound ]_vars

\* set(k,v); delete(k) answered OK; the second delete(k) has returned false.
C11_Witness ==
    /\ Len(ackOrder) = 2
    /\ ackOrder[1].cmd = Set(K1, V1) /\ ackOrder[1].resp = Ok
    /\ ackOrder[2].cmd = Delete(K1) /\ ackOrder[2].resp = Ok
    /\ pc["c1"] = "respond" /\ cmd["c1"] = Delete(K1)
    /\ resp["c1"] = NotFound
    /\ ~Exists(data, K1)

(***************************************************************************)
(* C12: per-connection FIFO.  A handler reads a request line only when     *)
(* every request it read before has been answered, the line it processes   *)
(* is the oldest line the client sent that was not read yet, and the       *)
(* responses of a connection are written in the order of its requests,     *)
(* each being the response of the request just executed.                   *)
(***************************************************************************)
AcksOf(c) == Len(SelectSeq(ackOrder, LAMBDA a : a.c = c))

C12_PerConnectionFifo ==
    [][ \A c \in Clients :
          /\ opn'[c] # opn[c] =>
                /\ opn'[c] = opn[c] + 1
                /\ AcksOf(c) = opn[c]
                /\ inbox[c] # <<>>
                /\ inbox'[c] = Tail(inbox[c])
                /\ cmd'[c] = IF ParseLine(Head(inbox[c])).type \in {"Bad", "Empty"}
                             THEN NoCommand ELSE ParseLine(Head(inbox[c]))
          /\ (Len(ackOrder') > Len(ackOrder) /\ ackOrder'[Len(ackOrder')].c = c) =>
                /\ Len(ackOrder') = Len(ackOrder) + 1
                /\ ackOrder'[Len(ackOrder')].n = AcksOf(c) + 1
                /\ ackOrder'[Len(ackOrder')].n = opn[c]
                /\ ackOrder'[Len(ackOrder')].cmd = cmd[c]
                /\ ackOrder'[Len(ackOrder')].resp = resp[c]
                /\ opn'[c] = opn[c] ]_vars

\* A client sent SET and GET ahead of the responses: the SET has been
\* executed and its response is about to be written while the GET waits in
\* the stream.
C12_Witness ==
    \E c \in Clients :
        /\ pc[c] = "respond"
        /\ cmd[c] = Set(K1, V1) /\ resp[c] = Ok
        /\ inbox[c] = <<CommandBytes(Get(K1))>>

(***************************************************************************)
(* C13: once shutdown() has been called, whether before or after run()     *)
(* started, the accept loop finds the signal at its select and leaves      *)
(* without accepting a further connection; run() returns Ok.               *)
(***************************************************************************)
C13_AcceptLoopStops ==
    [][ /\ (shut' # <<>> /\ run' = "select") => rx'[Acceptor] \in {"signal", "lagged"}
        /\ (shut # <<>> /\ run = "select") => run' \in {"select", "returned"} ]_vars

(***************************************************************************)
(* C14: a handler that was live when shutdown() broadcast leaves at its    *)
(* next select because of the signal: while the signal waits in its        *)
(* receiver (once or, after several calls, as a lag) the handler may       *)
(* finish the command it is executing but reads no further request line.   *)
(***************************************************************************)
C14_HandlerStopsAtNextSelect ==
    [][ \A c \in Clients :
          (pc[c] = "idle" /\ rx[c] \in {"signal", "lagged"}) => opn'[c] = opn[c] ]_vars

(***************************************************************************)
(* C15: a request line that does not parse (among them every line with an  *)
(* unknown verb or a missing argument) is answered with exactly one ERROR  *)
(* "Parse error: ...", an empty or whitespace-only line with exactly one   *)
(* ERROR "Empty command"; neither changes the keyspace or the WAL, and the *)
(* handler goes back to its select with the connection open.               *)
(***************************************************************************)
UnknownVerbLines ==
    {v \o g1 \o k \o g2 \o w \o e :
        v \in {<<"P", "U", "T">>, <<"s", "e", "t">>}, g1 \in WireGaps, k \in WireKeys,
        g2 \in WireGaps, w \in WireValues, e \in WireEnds}

MissingArgumentLines ==
    {v \o g \o e : v \in {VerbSet, VerbGet, VerbDelete}, g \in WireGaps, e \in WireEnds}
      \cup {VerbSet \o g1 \o <<"k">> \o g2 \o e :
              g1 \in WireGaps \ {<<>>}, g2 \in WireGaps, e \in WireEnds}

\* The request the handler is answering was rejected before execution.
Rejected(c) == pc[c] = "respond" /\ cmd[c] = NoCommand

C15_ParseFailureAnswered ==
    [][ \A c \in Clients :
          /\ opn'[c] # opn[c] =>
               LET raw == Head(inbox[c])
               IN  /\ IsBlank(raw) => (Rejected(c)' /\ resp'[c] = Error(EmptyCommandMsg))
                   /\ raw \in UnknownVerbLines \cup MissingArgumentLines
                        => (Rejected(c)' /\ resp'[c] = Error(ParseErrorMsg))
                   /\ ParseLine(raw).type \in {"Bad", "Empty"}
                        => /\ Rejected(c)'
                           /\ resp'[c].type = "Error"
                           /\ data' = data /\ files' = files
                           /\ walOrder' = walOrder
          /\ (Rejected(c) /\ pc'[c] # pc[c]) =>
               /\ pc'[c] = "idle"
               /\ rx'[c] = rx[c]
               /\ ackOrder' = Append(ackOrder, [c |-> c, n |-> opn[c], cmd |-> NoCommand,
                                                resp |-> resp[c]])
               /\ AcksOf(c)' = opn[c]
               /\ resp[c].type = "Error"
               /\ data' = data /\ files' = files /\ walOrder' = walOrder ]_vars

\* A line without argument was answered with ERROR and the SET sent next on
\* the same connection was executed and answered OK.
C15_Witness ==
    /\ Len(ackOrder) = 2
    /\ ackOrder[1].cmd = NoCommand /\ ackOrder[1].resp = Error(ParseErrorMsg)
    /\ ackOrder[2].cmd.type = "Set" /\ ackOrder[2].resp = Ok
    /\ ackOrder[2].cmd.key \in DOMAIN data
    /\ Len(FileLines(files[path])) = 1

(***************************************************************************)
(* C16: when the WAL holds a line that is neither blank nor an entry, the  *)
(* construction of the server fails: with the error of the replay, unless  *)
(* it has already ended in the panic of an earlier entry.  No server       *)
(* exists, so run never binds a listener, no connection is made or         *)
(* accepted, no request is answered and the WAL stays as it was.           *)
(***************************************************************************)
MalformedIn(f) ==
    \E i \in 1..Len(FileLines(f)) :
        ~IsBlank(FileLines(f)[i]) /\ FromJson(FileLines(f)[i]) = ParseError

C17_ReadsLeaveNoTrace ==
    [][ /\ \A i \in Inodes : \A n \in 1..Len(FileLines(files'[i])) :
             FromJson(FileLines(files'[i])[n]).type # "Get"
        /\ \A n \in 1..Len(walOrder') : walOrder'[n].cmd.type # "Get"
        /\ \A c \in Clients :
             (cmd'[c].type = "Get" /\ (pc'[c] # pc[c] \/ opn'[c] # opn[c])) =>
                 /\ data' = data /\ files' = files /\ path' = path /\ writer' = writer
                 /\ pc'[c] \in {"get", "respond", "idle"}
                 /\ pc'[c] = "respond" =>
                        resp'[c] = IF Exists(data, cmd[c].key)
                                   THEN Value(data[cmd[c].key]) ELSE NotFound
        /\ (task' # task /\ task'.op \in {"get", "exists", "len", "get_all"}) =>
             /\ data' = data /\ files' = files /\ path' = path /\ writer' = writer
             /\ walOrder' = walOrder /\ memOrder' = memOrder
             /\ task'.op \in {"get", "exists"} => task'.found = Exists(data, task'.key)
             /\ task'.op = "len" => task'.count = Cardinality(DOMAIN data)
             /\ task'.op \in {"get", "get_all"} =>
                  \A n \in 1..Len(task'.items) :
                      /\ Exists(data, task'.items[n][1])
                      /\ data[task'.items[n][1]] = task'.items[n][2]
             /\ task'.op = "get_all" =>
                  /\ Len(task'.items) = Cardinality(DOMAIN data)
                  /\ {task'.items[n][1] : n \in 1..Len(task'.items)} = DOMAIN data
           ]_vars

\* A client's GET of a present key was answered with its value, a task has
\* listed the keyspace, and the WAL holds the one entry of the SET.
C17_Witness ==
    /\ hasWal
    /\ Len(ackOrder) = 2
    /\ ackOrder[1].cmd = Set(K1, V1) /\ ackOrder[1].resp = Ok
    /\ ackOrder[2].cmd = Get(K1) /\ ackOrder[2].resp = Value(V1)
    /\ task.op = "get_all" /\ task.items = <<<<K1, V1>>>>
    /\ FileLines(files[path]) = <<ToJson(Set(K1, V1))>>

(***************************************************************************)
(* C18: a delete(k) of a store with WAL appends its Delete(k) entry        *)
(* whether k is present or not (the call that cannot append fails); when   *)
(* k is absent the keyspace is unchanged and the answer is false           *)
(* (NOT_FOUND); replaying a Delete(k) entry on a keyspace without k leaves *)
(* it unchanged and the replay of the WAL does not fail.                   *)
(***************************************************************************)
C18_DeleteAlwaysLogged ==
    [][ /\ \A c \in Clients :
             /\ (cmd[c].type = "Delete" /\ pc[c] = "wal" /\ pc'[c] = "mem") =>
                    FileLines(files'[writer]) =
                        Append(FileLines(files[writer]), ToJson(Delete(cmd[c].key)))
             /\ (cmd[c].type = "Delete" /\ pc[c] = "mem" /\ pc'[c] = "respond") =>
                    /\ hasWal => Op(c) \in Range(walOrder)
                    /\ hasWal => ToJson(cmd[c]) \in Range(FileLines(files[path]))
                    /\ ~Exists(data, cmd[c].key) => (data' = data /\ resp'[c] = NotFound)
        /\ \A k \in Keys :
             ~Exists(data', k) =>
                 /\ ApplyDirect(data', Delete(k)) = data'
                 /\ ReplayLines(<<ToJson(Delete(k))>>, data') = [ok |-> TRUE, data |-> data']
        /\ (hasWal /\ Quiescent') =>
               RestoreFromWal(files'[path']) = [ok |-> TRUE, data |-> data'] ]_vars

\* The delete of a key that was never set was answered NOT_FOUND; its entry
\* is the only line of the WAL and the keyspace is empty.
C18_Witness ==
    /\ hasWal
    /\ Len(ackOrder) = 1
    /\ ackOrder[1].cmd = Delete(K1) /\ ackOrder[1].resp = NotFound
    /\ FileLines(files[path]) = <<ToJson(Delete(K1))>>
    /\ data = EmptyMap

(***************************************************************************)
(* C19.  A step of clear(): among the steps of a connection, a compaction  *)
(* and clear, it is the one that moves neither the handler nor the         *)
(* compaction.                                                             *)
(***************************************************************************)
ClearStep == task'.op = "clear" /\ pc' = pc /\ pcx' = pcx

\* What clear() does to memory and to the WAL.
ClearFrame ==
    /\ data' = EmptyMap
    /\ files' = files /\ path' = path /\ writer' = writer
    /\ walOrder' = walOrder

(***************************************************************************)
(* C19, as claimed: clear() empties the in-memory mapping and leaves the   *)
(* WAL unchanged, so that a replay of the WAL after clear() yields the     *)
(* mappings held before the clear (checked only for a clear() called while *)
(* no request is in progress and before any compaction).                   *)
(***************************************************************************)
C19_ReplayRestoresPreClear ==
    [][ (ClearStep /\ Quiescent /\ path = 1 /\ pcx = "idle") =>
            /\ ClearFrame
            /\ RestoreFromWal(files'[path']) = [ok |-> TRUE, data |-> data] ]_vars

(***************************************************************************)
(* C19, amended: clear() empties the in-memory mapping and leaves the WAL  *)
(* unchanged: it appends nothing and removes nothing, so a replay of the   *)
(* WAL after clear() yields what a replay yielded before it.  These are    *)
(* the pre-clear mappings when memory agreed with the WAL at the clear.    *)
(***************************************************************************)
C19_ClearKeepsWal ==
    [][ ClearStep =>
            /\ ClearFrame
            /\ RestoreFromWal(files'[path']) = RestoreFromWal(files[path])
            /\ RestoreFromWal(files[path]) = [ok |-> TRUE, data |-> data] =>
                   RestoreFromWal(files'[path']) = [ok |-> TRUE, data |-> data] ]_vars

\* clear() has run with no request in progress: memory is empty and the
\* replay of the WAL yields a non-empty keyspace.
C19_Witness ==
    /\ task.op = "clear"
    /\ Quiescent
    /\ data = EmptyMap
    /\ RestoreFromWal(files[path]).ok
    /\ RestoreFromWal(files[path]).data # EmptyMap

(***************************************************************************)
(* C20: data-model invariant.  Starting from an empty keyspace, after any  *)
(* sequence of request lines received over the wire every key of the       *)
(* keyspace is non-empty and holds no space, carriage return or newline,   *)
(* and every value holds no carriage return or newline.                    *)
(***************************************************************************)
C20_DataModelInvariant ==
    \A k \in DOMAIN data :
        /\ k # <<>>
        /\ Range(k) \cap {SP, CR, LF} = {}
        /\ Range(data[k]) \cap {CR, LF} = {}

(***************************************************************************)
(* C21: when several clients concurrently run set/get/delete sequences on  *)
(* pairwise disjoint keys, every get returns the value of that client's    *)
(* own preceding set (NOT_FOUND when the client has set none or deleted    *)
(* it), every delete of a key the client set returns true, and once every  *)
(* request is answered len is the number of distinct keys inserted and not *)
(* deleted.                                                                *)
(***************************************************************************)
\* The acknowledged mutations of client c among the first n responses.
OwnAcked(c, n) ==
    SelectSeq(SubSeq(ackOrder, 1, n), LAMBDA a : a.c = c /\ IsMutationAck(a))

C21_DisjointKeysIsolated ==
    /\ \A i \in 1..Len(ackOrder) :
         LET a == ackOrder[i]
             own == RefGet(OwnAcked(a.c, i - 1), a.cmd.key)
         IN  /\ a.cmd.type = "Get" => a.resp = own
             /\ (a.cmd.type = "Delete" /\ a.resp.type # "Error") =>
                    (a.resp = Ok <=> own # NotFound)
    /\ Quiescent =>
         LET live == {k \in Keys :
                         RefGet(SelectSeq(ackOrder, IsMutationAck), k) # NotFound}
         IN  /\ Cardinality(DOMAIN data) = Cardinality(live)
             /\ \A k \in live :
                    Value(data[k]) = RefGet(SelectSeq(ackOrder, IsMutationAck), k)

\* Two clients ran overlapping requests: one set its key and read it back,
\* the other set its key and deleted it; the second entry of the WAL was
\* the first to reach memory.  One key is left.
C21_Witness ==
    /\ Quiescent
    /\ Len(walOrder) >= 2 /\ Len(memOrder) >= 2
    /\ walOrder[1].c # memOrder[1].c
    /\ \E i, j \in 1..Len(ackOrder) :
         /\ ackOrder[i].c = "c1" /\ ackOrder[i].cmd.type = "Get"
         /\ ackOrder[i].resp.type = "Value"
         /\ ackOrder[j].c = "c2" /\ ackOrder[j].cmd.type = "Delete"
         /\ ackOrder[j].resp = Ok
    /\ Cardinality(DOMAIN data) = 1

(***************************************************************************)
(* C22: for a key without spaces and any value, including values that      *)
(* contain newline, tab, carriage return and quote characters,             *)
(* client.set(k,v) succeeds and a client.get(k) that follows it on the     *)
(* same connection returns Some(v) exactly (no append to the WAL having    *)
(* failed).                                                                *)
(***************************************************************************)
NoAppendFailed ==
    \A i \in 1..Len(ackOrder) :
        ackOrder[i].resp.payload \notin {SetFailedMsg, DeleteFailedMsg}

C22_SpecialValuesRoundTrip ==
    NoAppendFailed =>
        \A c \in Clients :
            LET log == call[c].log
            IN  \A i \in 1..Len(log) :
                    log[i].cmd.type = "Set" =>
                        /\ log[i].result = Returned("unit", NoValue)
                        /\ (i < Len(log) /\ log[i + 1].cmd = Get(log[i].cmd.key)) =>
                               log[i + 1].result = Returned("some", log[i].cmd.value)

(***************************************************************************)
(* C23: round-trip encoding.  For every response r whose payload holds no  *)
(* newline (Value and Error with an empty payload or with leading or       *)
(* trailing spaces included), parsing the serialized bytes of r on the     *)
(* client side yields r again.                                             *)
(***************************************************************************)
C23_ResponseRoundTrip ==
    (probe.in \in Responses /\ probe.out # NoResponse) => probe.out = probe.in

(***************************************************************************)
(* C24: for a SET request processed by the server, the stored value is the *)
(* remainder of the line after the key and its separator up to the line    *)
(* terminator, verbatim: embedded spaces, trailing spaces and the empty    *)
(* value are preserved, and a following GET returns exactly those bytes.   *)
(***************************************************************************)
\* Separators of one or more spaces, and values that fit on one line.
SpaceGaps == {g \in WireGaps : g # <<>> /\ Range(g) = {SP}}
LineValues == {w \in WireValues : Range(w) \cap {CR, LF} = {}}

C24_SetValueVerbatim ==
    [][ \A c \in Clients :
          /\ opn'[c] # opn[c] =>
               \A g1, g2 \in SpaceGaps, k \in WireKeys \ {<<>>}, w \in LineValues,
                  e \in WireEnds :
                   Head(inbox[c]) = VerbSet \o g1 \o k \o g2 \o w \o e =>
                       cmd'[c] = Set(k, w)
          /\ (cmd[c].type = "Set" /\ pc[c] = "mem" /\ pc'[c] = "respond") =>
               (Exists(data', cmd[c].key) /\ data'[cmd[c].key] = cmd[c].value)
          /\ (cmd[c].type = "Get" /\ pc[c] = "get" /\ pc'[c] = "respond"
                /\ Exists(data, cmd[c].key)) =>
               resp'[c] = Value(data[cmd[c].key]) ]_vars

(***************************************************************************)
(* C25: over the wire, a DELETE k that the store executes is answered OK   *)
(* exactly when k was present (and k is then removed) and NOT_FOUND        *)
(* exactly when k was absent; the client library's delete returns true for *)
(* OK and false for NOT_FOUND.                                             *)
(***************************************************************************)
\* The responses written to the connection of c, in order.
AckedTo(c) == SelectSeq(ackOrder, LAMBDA a : a.c = c)

C25_DeleteOverTheWire ==
    [][ \A c \in Clients :
          /\ (cmd[c].type = "Delete" /\ pc[c] = "mem" /\ pc'[c] = "respond") =>
               /\ resp'[c] = Ok <=> Exists(data, cmd[c].key)
               /\ resp'[c] = NotFound <=> ~Exists(data, cmd[c].key)
               /\ ~Exists(data', cmd[c].key)
          /\ (cmd[c].type = "Delete" /\ pc[c] = "respond" /\ pc'[c] = "idle") =>
               /\ AckedTo(c)' = Append(AckedTo(c), [c |-> c, n |-> opn[c], cmd |-> cmd[c],
                                                     resp |-> resp[c]])
               /\ ResponseLines(c)' = Append(ResponseLines(c), ResponseBytes(resp[c]))
          /\ (call[c].cmd.type = "Delete" /\ call'[c].cmd = NoCommand) =>
               LET i == Len(call'[c].log)
                   l == call'[c].log[i]
                   line == ResponseLines(c)[i]
               IN  /\ i = Len(call[c].log) + 1
                   /\ l.cmd = call[c].cmd
                   /\ l.result.kind = "true" <=> line = ResponseBytes(Ok)
                   /\ l.result.kind = "false" <=> line = ResponseBytes(NotFound) ]_vars

\* The client set a key and deleted it twice: the first delete returned
\* true, the second false, and the key is gone.
C25_Witness ==
    LET log == call["c1"].log
    IN  /\ Len(log) = 3
        /\ log[1].cmd.type = "Set" /\ log[1].result.kind = "unit"
        /\ log[2] = [cmd |-> Delete(log[1].cmd.key), result |-> Returned("true", NoValue)]
        /\ log[3] = [cmd |-> Delete(log[1].cmd.key), result |-> Returned("false", NoValue)]
        /\ ~Exists(data, log[1].cmd.key)

(***************************************************************************)
(* C26: parse_command returns a ParseError, never a Command, whenever the  *)
(* verb is not exactly SET, GET or DELETE (case-sensitive), a mandatory    *)
(* separator or argument is absent, or the key is empty; whenever it       *)
(* returns a Command the key is non-empty.                                 *)
(***************************************************************************)
\* The prefix of q before its first character in stops, and the prefix of
\* characters in chars.
Before(q, stops) ==
    SubSeq(q, 1, Cardinality({i \in 1..Len(q) : \A j \in 1..i : q[j] \notin stops}))
Leading(q, chars) ==
    SubSeq(q, 1, Cardinality({i \in 1..Len(q) : \A j \in 1..i : q[j] \in chars}))

\* The tokens of a line: verb, separator, key, separator.
VerbOf(line) == Before(line, {SP, TAB, CR, LF})
Sep1Of(line) == Leading(Drop(line, Len(VerbOf(line))), {SP, TAB})
KeyOf(line) ==
    Before(Drop(line, Len(VerbOf(line)) + Len(Sep1Of(line))), {SP, CR, LF})
Sep2Of(line) ==
    Leading(Drop(line, Len(VerbOf(line)) + Len(Sep1Of(line)) + Len(KeyOf(line))), {SP, TAB})

UnknownVerb(line) == VerbOf(line) \notin {VerbSet, VerbGet, VerbDelete}
NoKey(line) == Sep1Of(line) = <<>> \/ KeyOf(line) = <<>>
NoValueSeparator(line) == VerbOf(line) = VerbSet /\ Sep2Of(line) = <<>>

EndsWithNewlineAlone(line) == EndsWith(line, <<LF>>) /\ ~EndsWith(line, <<CR, LF>>)
WithCrLf(line) == SubSeq(line, 1, Len(line) - 1) \o <<CR, LF>>

C27_NewlineAloneAccepted ==
    ( /\ probe.bytes # <<>> /\ probe.in = NoCommand
      /\ EndsWithNewlineAlone(probe.bytes)
      /\ parse_command(WithCrLf(probe.bytes)) # BadLine )
    => /\ probe.out # BadLine
       /\ probe.out = parse_command(WithCrLf(probe.bytes))

(***************************************************************************)
(* C28: replay invokes apply_fn exactly once for each non-blank WAL line,  *)
(* in file order (the order of the appends); blank lines are skipped; and  *)
(* during store restoration Set and Delete entries are applied while Get   *)
(* entries change nothing: once the restoration has run over a WAL whose   *)
(* non-blank lines are all entries, the store holds for each key what the  *)
(* last Set or Delete entry of the key left.                               *)
(***************************************************************************)
\* The non-blank lines of the WAL, and those before the first that is no entry.
NonBlank(f) == SelectSeq(FileLines(f), LAMBDA l : ~IsBlank(l))
Entries(f) ==
    LET ls == NonBlank(f)
    IN  SubSeq(ls, 1, Cardinality({i \in 1..Len(ls) :
                                      \A j \in 1..i : FromJson(ls[j]) # ParseError}))

C28_ReplayInFileOrder ==
    /\ task.op = "replay" =>
         /\ Len(task.items) = Len(Entries(files[path]))
         /\ \A i \in 1..Len(task.items) : ToJson(task.items[i]) = Entries(files[path])[i]
         /\ task.found <=> Entries(files[path]) = NonBlank(files[path])
    /\ (srv \notin {"down", "failed"} /\ Entries(files[path]) = NonBlank(files[path])) =>
         \A k \in Keys :
             (IF Exists(data, k) THEN Value(data[k]) ELSE NotFound)
                 = RefGet([i \in 1..Len(Entries(files[path])) |->
                              [cmd |-> FromJson(Entries(files[path])[i])]], k)

(***************************************************************************)
(* C29: after compact completes with no concurrent mutation, the WAL       *)
(* consists of exactly one Set(k,v) entry for each live mapping (k,v) of   *)
(* the snapshot and holds no Delete or Get entry and no entry for a key    *)
(* that is not live.                                                       *)
(***************************************************************************)
C29_CompactedWalIsMinimal ==
    chist.clean = "done" =>
        LET ls == FileLines(files[path])
        IN  /\ files[path].tail = <<>>
            /\ Len(ls) = Cardinality(DOMAIN data)
            /\ Range(ls) = {ToJson(Set(k, data[k])) : k \in DOMAIN data}
            /\ \A i \in 1..Len(ls) :
                 /\ FromJson(ls[i]) # ParseError
                 /\ FromJson(ls[i]).type = "Set"
                 /\ Exists(data, FromJson(ls[i]).key)

\* A Set and a Delete were appended to the WAL; after the compaction the WAL
\* is the one Set entry of the one live mapping.
C29_Witness ==
    /\ chist.clean = "done"
    /\ \E i \in 1..Len(walOrder) : walOrder[i].cmd.type = "Delete"
    /\ \E k \in Keys :
         /\ DOMAIN data = {k}
         /\ FileLines(files[path]) = <<ToJson(Set(k, data[k]))>>

(***************************************************************************)
(* C30: lock discipline.  No task requests the WAL append mutex while it   *)
(* holds the store's reader/writer lock; every set and delete of a store   *)
(* with WAL takes the WAL mutex before the store write lock; read-only     *)
(* access never takes the WAL mutex; and no interleaving of set, get,      *)
(* delete, clear, snapshot and compact reaches a deadlock: while a task is *)
(* inside a call, some task inside a call can move on.                     *)
(***************************************************************************)
HoldsStore(t) == t \in lock.readers \/ lock.wr = t

C30_LockDiscipline ==
    /\ \A t \in LockTasks :
         LET a == lock.at[t]
         IN  /\ (a.pos \in {"want", "hold"} /\ Head(a.plan) = "wal") => ~HoldsStore(t)
             /\ (a.op \in {"set", "delete"} /\ hasWal /\ a.pos \in {"want", "hold"}
                   /\ Head(a.plan) = "write") => a.done = <<"wal">>
             /\ a.op \in {"get", "get_all"} => lock.writer # t
             /\ (lock.writer = t /\ HoldsStore(t)) => FALSE
    /\ (\E t \in LockTasks : lock.at[t].pos # "idle") => ENABLED Progress

\* One task holds the store write lock for a set whose entry is logged,
\* another holds the WAL mutex, a third waits in the queue of the store lock.
C30_Witness ==
    \E t, u, w \in LockTasks :
        /\ lock.wr = t /\ lock.at[t].op = "set" /\ lock.at[t].done = <<"wal">>
        /\ lock.writer = u /\ u # t
        /\ lock.at[w].pos = "want" /\ lock.queue = <<w>>

(***************************************************************************)
(* C31: appends are serialized by one mutex.  At most one task is writing  *)
(* to the WAL at any time, and under any interleaving of concurrent set    *)
(* and delete calls the WAL is a sequence of complete entries, one line    *)
(* per successful append, with no two entries interleaved within a line.   *)
(***************************************************************************)
Writing(t) == lock.at[t].op = "append" /\ lock.at[t].pos = "hold"

Replaying == srv = "restoring"

C32_ReplayBeforeServing ==
    [][/\ Replaying =>
            /\ run = "new"
            /\ \A c \in Clients : pc[c] = "closed" /\ inbox[c] = <<>>
            /\ walOrder = <<>>
            /\ files' = files
       /\ files' # files => srv = "up" /\ run # "new"
       /\ run' # run => srv = "up"
       /\ srv \in {"up", "failed", "panicked"} => srv' = srv /\ task' = task
       /\ (srv = "up" /\ data' # data) => \E c \in Clients : pc[c] = "mem"]_vars

\* The replay of a WAL with a Set entry has restored its mapping, and the
\* client of the server that was started then has appended an entry.
C32_Witness ==
    /\ srv = "up"
    /\ task.op = "restore" /\ task.count > 0
    /\ Len(walOrder) = 1
    /\ \E k \in DOMAIN data : ToJson(Set(k, data[k])) \in Range(FileLines(files[path]))
    /\ Len(FileLines(files[path])) > task.count

(***************************************************************************)
(* C33: a connection handler exits only on end-of-stream, a read error, a  *)
(* failed response write or flush, or the shutdown signal; it never exits  *)
(* because a request failed to parse or a store operation returned an      *)
(* error, and the exit of one handler does not terminate any other handler *)
(* or the accept loop.                                                     *)
(***************************************************************************)
Serving(c) == pc[c] \in {"idle", "wal", "mem", "get", "respond"}

\* The handler of c returns in this step.
Exits(c) == Serving(c) /\ ~Serving(c)'

AcksTo(c) == Len(SelectSeq(ackOrder, LAMBDA a : a.c = c))

C33_HandlerExits ==
    [][\A c \in Clients :
         /\ Exits(c) =>
              /\ \/ pc[c] = "idle" /\ inbox[c] # <<>> /\ Head(inbox[c]) = Eof
                 \/ pc[c] = "idle" /\ pc'[c] = "error"
                 \/ pc[c] = "respond" /\ AcksTo(c)' = AcksTo(c)
                 \/ pc[c] = "idle" /\ rx[c] \in {"signal", "lagged"}
              /\ run' = run /\ rx'[Acceptor] = rx[Acceptor]
              /\ \A d \in Clients \ {c} : pc'[d] = pc[d] /\ rx'[d] = rx[d]
         /\ (pc[c] = "idle" /\ opn'[c] # opn[c]) => Serving(c)'
         /\ pc[c] \in {"wal", "mem", "get"} => Serving(c)'
         /\ (pc[c] = "respond" /\ AcksTo(c)' # AcksTo(c)) => pc'[c] = "idle"]_vars

\* A handler has answered a request that failed to parse and is in select
\* again, while the other handler has returned after an error of its
\* connection and the accept loop runs.
C33_Witness ==
    \E c, d \in Clients :
        /\ pc[c] = "idle"
        /\ \E i \in 1..Len(ackOrder) :
             ackOrder[i].c = c /\ ackOrder[i].resp = Error(ParseErrorMsg)
        /\ pc[d] = "error"
        /\ run = "select"

(***************************************************************************)
(* C34: shutdown() called while no task is subscribed to the shutdown      *)
(* channel (run() not yet started and no handler alive) returns an error   *)
(* and leaves nothing behind: the signal is not retained, so a run()       *)
(* started afterwards does not stop because of that call.                  *)
(***************************************************************************)
NoSubscriber == \A x \in Receivers : rx[x] = "none"

C34_ShutdownWithoutSubscriber ==
    [][/\ (NoSubscriber /\ shut' # shut) =>
            /\ shut' = Append(shut, "Err")
            /\ rx' = rx /\ run' = run /\ pc' = pc
       /\ (run = "new" /\ run' # "new") => rx'[Acceptor] = "empty"
       /\ (run = "new" /\ shut' # shut) => shut' = Append(shut, "Err")
       /\ run' = "returned" => "Ok" \in Range(shut')]_vars

\* shutdown() has returned an error before run was called, and run, called
\* afterwards, is in its loop with a handler it has spawned.
C34_Witness ==
    /\ shut = <<"Err">>
    /\ run = "select"
    /\ rx[Acceptor] = "empty"
    /\ \E c \in Clients : pc[c] = "idle" /\ rx[c] = "empty"

(***************************************************************************)
(* C35: the WAL is append-only.  In the absence of compact, no operation   *)
(* (set, delete, get, clear, replay, server start) removes or rewrites an  *)
(* existing WAL entry, and the sequence of entries before any step is a    *)
(* prefix of the sequence after it.                                        *)
(***************************************************************************)
IsPrefix(q, r) == Len(q) <= Len(r) /\ SubSeq(r, 1, Len(q)) = q

\* File g holds the bytes of file f and possibly more after them.
Extends(f, g) ==
    /\ IsPrefix(f.lines, g.lines)
    /\ IsPrefix(f.tail, IF Len(g.lines) > Len(f.lines) THEN g.lines[Len(f.lines) + 1]
                        ELSE g.tail)

C35_WalAppendOnly ==
    [][/\ path' = path /\ writer' = writer /\ writer = path
       /\ Extends(files[path], files'[path])
       /\ files'[path] # files[path] => \E c \in Clients : pc[c] = "wal" /\ pc'[c] = "mem"]_vars

\* The server has started on a WAL that held an entry, a client has
\* appended an entry after it, and clear has been called.
C35_Witness ==
    /\ srv = "up"
    /\ task.op = "clear"
    /\ Len(walOrder) = 1
    /\ Len(files[path].lines) = 2
    /\ files[path].lines[1] \in EntryLines
    /\ files[path].lines[2] = ToJson(walOrder[1].cmd)
    /\ data = EmptyMap

(***************************************************************************)
(* C36: request/response pairing.  Every command sent by the client        *)
(* library (for any key and value strings) causes the server to write      *)
(* exactly one response line, so the response the client reads for its     *)
(* n-th call is always the response to its n-th command and no stale       *)
(* response is left for a later call.                                      *)
(***************************************************************************)
CallsMade(c) == Len(call[c].log) + (IF call[c].cmd = NoCommand THEN 0 ELSE 1)

C36_RequestResponsePairing ==
    \A c \in Clients :
        /\ opn[c] + Unread(c) = CallsMade(c)
        /\ Len(ResponseLines(c)) <= CallsMade(c)
        /\ call[c].cmd = NoCommand =>
               /\ inbox[c] = <<>> /\ pc[c] = "idle"
               /\ call[c].read = Len(ResponseLines(c))

(***************************************************************************)
(* C37: no handler escapes shutdown.  In every interleaving of an incoming *)
(* connection with a shutdown() call, each handler that the accept loop    *)
(* spawns observes the shutdown signal: no handler subscribes to the       *)
(* shutdown channel after the broadcast was sent and then keeps serving    *)
(* its connection after run() has returned.                                *)
(***************************************************************************)
C37_NoHandlerEscapesShutdown ==
    run = "returned" =>
        \A c \in Clients : Serving(c) => rx[c] \in {"signal", "lagged"}

(***************************************************************************)
(* C38: restoring from the WAL applies entries directly to memory without  *)
(* logging.  restore_from_wal appends nothing to the WAL, and restoring    *)
(* the same WAL twice (or on a store that already holds the restored       *)
(* state) yields the same keyspace as restoring it once.                   *)
(***************************************************************************)
\* restore_from_wal returns in this step, with Ok or with the error of the
\* replay.
RestoreReturns == srv = "restoring" /\ srv' \in {"up", "failed"}

C38_RestoreIdempotent ==
    [][/\ files' = files /\ writer' = writer /\ walOrder' = walOrder
       /\ RestoreReturns => data' = RestoreFromWal(files[path]).data
       /\ (RestoreReturns /\ task.items # <<>>
             /\ task.items[Len(task.items)] = RestoreFromWal(files[path]).data) =>
               data' = task.items[Len(task.items)]
       /\ srv' = "panicked" => data' = data]_vars

\* The second restore of a WAL that holds an entry has returned Ok on the
\* store the first restore had filled.
C38_Witness ==
    /\ srv = "up"
    /\ task.op = "restore"
    /\ Len(task.items) = 1
    /\ task.items[1] # EmptyMap
    /\ data = task.items[1]
    /\ \E l \in Range(FileLines(files[path])) : ~IsBlank(l) /\ FromJson(l).type = "Delete"

====
